---- MODULE Spec2Model ----
(***************************************************************************)
(* Standings, reseeding and playoff-bracket logic of tfl-snapshot.         *)
(*                                                                         *)
(* Points are modelled as integers (the code compares them with !== and    *)
(* subtracts them, which integers reproduce exactly).  A win percentage is *)
(* kept as the exact fraction <<numerator, denominator>>; two such         *)
(* fractions are compared by cross-multiplication, which has the sign of   *)
(* the floating-point difference the code computes for every record a      *)
(* season can produce.                                                     *)
(***************************************************************************)
EXTENDS Integers, Sequences, FiniteSets, TLC

\* Largest league the standings specification builds.
MaxTeams == 9
\* Largest league of the arrival-order specification.
MaxOrderTeams == 3
\* Largest winners bracket of the bracket specification.
MaxMatches == 2

\* Playoff start week used when the league settings name none.
DefaultPlayoffStartWeek == 14
\* Number of playoff weeks whose scores the matchups handler fetches.
PlayoffWeeksFetched == 3

\* Number of qualified teams kept in place by both reseeding rules.
QualifiedCount == 6
\* Smallest league size for which the redraft rule applies.
RedraftMinTeams == 7

\* Season lines (wins, losses, ties, points for, points against) of the
\* standings specification: two lines that tie on win percentage and points
\* for and differ in points against, a line with a worse record and more
\* points, and a team that has not played.
LeaderLine ==
  [wins |-> 1, losses |-> 0, ties |-> 0, pointsFor |-> 1, pointsAgainst |-> 0]

StatLines ==
  { LeaderLine,
    [wins |-> 1, losses |-> 0, ties |-> 0, pointsFor |-> 1, pointsAgainst |-> 1],
    [wins |-> 0, losses |-> 1, ties |-> 0, pointsFor |-> 2, pointsAgainst |-> 0],
    [wins |-> 0, losses |-> 0, ties |-> 0, pointsFor |-> 0, pointsAgainst |-> 0] }

\* Season lines of the arrival-order specification: equal win percentages
\* from different records (0-0-0 and 0-1-0; 1-1-0 and 0-0-1), equal and
\* different points.
OrderStatLines ==
  { [wins |-> 0, losses |-> 0, ties |-> 0, pointsFor |-> 0, pointsAgainst |-> 0],
    [wins |-> 0, losses |-> 1, ties |-> 0, pointsFor |-> 0, pointsAgainst |-> 1],
    [wins |-> 1, losses |-> 1, ties |-> 0, pointsFor |-> 1, pointsAgainst |-> 1],
    [wins |-> 0, losses |-> 0, ties |-> 1, pointsFor |-> 1, pointsAgainst |-> 2],
    [wins |-> 2, losses |-> 1, ties |-> 0, pointsFor |-> 1, pointsAgainst |-> 0] }

LeagueTypes == {"redraft", "dynasty", "none"}

VARIABLES
  teams,            \* the unranked team list handed to a ranking pass
  ranked,           \* the list the last ranking pass returned
  op,               \* which pass produced `ranked` ("none" before any pass)
  winnersBracket,   \* the playoff match records the matchups handler fetched
  playoffStartWeek, \* the league's playoff start week
  pointsMap,        \* (week, roster id) -> points, from the weekly matchups
  week,             \* the week the matchups request asked for
  bracket,          \* the bracket view of the matchups response
  pairs,            \* the pairs of the matchups response
  served,           \* TRUE once the matchups handler has answered
  call,             \* the last call of the pairing library and its arguments
  valid,            \* what isValidWeekForLeague returned
  rule,             \* what getMatchupRule returned
  failure,          \* the error the last library call threw (NoError if none)
  cache,            \* MemoryCache.cache for one key: NoEntry or the entry
  pendingRequests,  \* MemoryCache.pendingRequests for that key: 0 or a promise
  promises,         \* the promises getOrFetch created, each with its producer
  now,              \* Date.now()
  callers,          \* what each getOrFetch call returned, in call order
  users,            \* body of the upstream users response
  rosters,          \* body of the upstream rosters response
  upstream,         \* which upstream request of the standings request failed
  response,         \* what GET /api/standings answered
  leagueSettings,   \* what the champion lookup read of the league settings
  weeklyMatchups,   \* the weekly matchups the champion lookup read
  playoffFinal      \* what fetchPlayoffFinal returned

rankVars == <<teams, ranked, op>>
bracketVars == <<winnersBracket, playoffStartWeek, pointsMap, week, bracket, pairs, served>>
libVars == <<call, valid, rule, failure>>
cacheVars == <<cache, pendingRequests, promises, now, callers>>
dataVars == <<users, rosters, upstream, response>>
finalVars == <<leagueSettings, weeklyMatchups, playoffFinal>>
auxVars == <<cacheVars, dataVars, finalVars>>
vars == <<teams, ranked, op, winnersBracket, playoffStartWeek, pointsMap, week,
          bracket, pairs, served, call, valid, rule, failure,
          cache, pendingRequests, promises, now, callers,
          users, rosters, upstream, response,
          leagueSettings, weeklyMatchups, playoffFinal>>

\* No cache entry for the key.
NoEntry == [data |-> "none", timestamp |-> 0, ttl |-> 0]

\* new MemoryCache(), before any call.
EmptyCache ==
  /\ cache = NoEntry
  /\ pendingRequests = 0
  /\ promises = <<>>
  /\ now = 0
  /\ callers = <<>>

\* No standings request made yet.
NoFailure == [request |-> "none", kind |-> "none"]
NoResponse == [status |-> 0, error |-> <<>>]
NoStandingsRequest ==
  /\ users = <<>>
  /\ rosters = <<>>
  /\ upstream = NoFailure
  /\ response = NoResponse

\* No champion lookup made yet.
NoSettings == [playoff_week_start |-> 0, leg |-> 0, week |-> 0]
NotFetched == [fetched |-> FALSE]
NoFinalRequest ==
  /\ leagueSettings = NoSettings
  /\ weeklyMatchups = <<>>
  /\ playoffFinal = NotFetched

\* No library call made yet, and no error thrown.
NoCall == [fn |-> "none", leagueType |-> "none", week |-> 0]
NoError == [name |-> "", message |-> <<>>]

\* A team without rank (Omit<Team, 'rank'>).
MakeTeam(id, line) ==
  [rosterId |-> id, ownerId |-> "owner", displayName |-> <<"Team", id>>,
   wins |-> line.wins, losses |-> line.losses, ties |-> line.ties,
   pointsFor |-> line.pointsFor, pointsAgainst |-> line.pointsAgainst]

----------------------------------------------------------------------------
\* Array helpers.

\* Array.prototype.slice(from) / slice(from, to), 0-based as in the code.
Slice(s, from, to) ==
  LET hi == IF to < Len(s) THEN to ELSE Len(s)
  IN  IF from >= hi THEN <<>> ELSE [i \in 1..(hi - from) |-> s[from + i]]

\* Array.prototype.filter.
\* Faulty variant of the filter: the promoted team is not removed.
FilterKeepAll(s, id) == s

RECURSIVE FilterOutRoster(_, _)
FilterOutRoster(s, id) ==
  IF s = <<>> THEN <<>>
  ELSE IF Head(s).rosterId # id
       THEN <<Head(s)>> \o FilterOutRoster(Tail(s), id)
       ELSE FilterOutRoster(Tail(s), id)

\* Faulty variant of the rank assignment: rank: index.
WithRanksZeroBased(s) ==
  [i \in 1..Len(s) |->
     [f \in (DOMAIN s[i]) \cup {"rank"} |-> IF f = "rank" THEN i - 1 ELSE s[i][f]]]

\* teams.map((team, index) => ({...team, rank: index + 1}))
WithRanks(s) ==
  [i \in 1..Len(s) |->
     [f \in (DOMAIN s[i]) \cup {"rank"} |-> IF f = "rank" THEN i ELSE s[i][f]]]

----------------------------------------------------------------------------
\* Comparators.

\* Faulty variant of the win percentage: ties count for nothing.
calculateWinPercentageNoTies(wins, losses, ties) ==
  LET totalGames == wins + losses + ties
  IN  IF totalGames = 0 THEN <<0, 1>> ELSE <<2 * wins, 2 * totalGames>>

calculateWinPercentage(wins, losses, ties) ==
  LET totalGames == wins + losses + ties
  IN  IF totalGames = 0 THEN <<0, 1>> ELSE <<2 * wins + ties, 2 * totalGames>>

\* Sign of (winPercentageB - winPercentageA).
WinPctDiff(a, b) ==
  LET pa == calculateWinPercentage(a.wins, a.losses, a.ties)
      pb == calculateWinPercentage(b.wins, b.losses, b.ties)
  IN  pb[1] * pa[2] - pa[1] * pb[2]

\* Faulty variant of the default comparator: no roster-id tie-break.
sortStandingsSleeperDefaultNoTieBreak(a, b) ==
  LET d == WinPctDiff(a, b)
  IN  IF d # 0 THEN d
      ELSE IF a.pointsFor # b.pointsFor THEN b.pointsFor - a.pointsFor
      ELSE IF a.pointsAgainst # b.pointsAgainst THEN b.pointsAgainst - a.pointsAgainst
      ELSE 0

sortStandingsSleeperDefault(a, b) ==
  IF WinPctDiff(a, b) # 0 THEN WinPctDiff(a, b)
  ELSE IF a.pointsFor # b.pointsFor THEN b.pointsFor - a.pointsFor
  ELSE IF a.pointsAgainst # b.pointsAgainst THEN b.pointsAgainst - a.pointsAgainst
  ELSE a.rosterId - b.rosterId

\* Faulty variant of the standings comparator: points against breaks ties too.
sortStandingsWithPointsAgainst(a, b) ==
  IF WinPctDiff(a, b) # 0 THEN WinPctDiff(a, b)
  ELSE IF a.pointsFor # b.pointsFor THEN b.pointsFor - a.pointsFor
  ELSE IF a.pointsAgainst # b.pointsAgainst THEN b.pointsAgainst - a.pointsAgainst
  ELSE a.rosterId - b.rosterId

sortStandings(a, b) ==
  IF WinPctDiff(a, b) # 0 THEN WinPctDiff(a, b)
  ELSE IF a.pointsFor # b.pointsFor THEN b.pointsFor - a.pointsFor
  ELSE a.rosterId - b.rosterId

\* Faulty variant of the points comparator: points for ascending.
sortByPointsAscending(a, b) ==
  IF a.pointsFor # b.pointsFor THEN a.pointsFor - b.pointsFor
  ELSE a.rosterId - b.rosterId

\* The inline comparator of both reseeding rules.
sortByPoints(a, b) ==
  IF a.pointsFor # b.pointsFor THEN b.pointsFor - a.pointsFor
  ELSE a.rosterId - b.rosterId

\* The comparator of the bracket's matches.sort((a,b) => a.id - b.id).
CompareById(a, b) == a.id - b.id

\* The comparator callbacks handed to Array.prototype.sort, by name.
Compare(cmp, a, b) ==
  CASE cmp = "sortStandingsSleeperDefault" -> sortStandingsSleeperDefault(a, b)
    [] cmp = "sortStandings" -> sortStandings(a, b)
    [] cmp = "sortByPoints" -> sortByPoints(a, b)
    [] cmp = "CompareById" -> CompareById(a, b)

\* Array.prototype.sort(cmp): a stable sort; each element is inserted after
\* the elements that do not compare greater than it.
Sort(s, cmp) ==
  LET Insert(sorted, x) ==
        LET k == Cardinality({i \in 1..Len(sorted) : Compare(cmp, sorted[i], x) <= 0})
        IN  SubSeq(sorted, 1, k) \o <<x>> \o SubSeq(sorted, k + 1, Len(sorted))
      ins[n \in 0..Len(s)] == IF n = 0 THEN <<>> ELSE Insert(ins[n - 1], s[n])
  IN  ins[Len(s)]

----------------------------------------------------------------------------
\* Ranking passes.

applySleeperDefaultRankings(ts) ==
  WithRanks(Sort(ts, "sortStandingsSleeperDefault"))

\* Faulty variant of the points race: the qualified teams are re-sorted too.
applyPointsRaceRankingsWholeList(ts) ==
  WithRanks(Sort(Sort(ts, "sortStandingsSleeperDefault"), "sortByPoints"))

applyPointsRaceRankings(ts) ==
  LET standardSorted == Sort(ts, "sortStandingsSleeperDefault")
      top6Qualified  == Slice(standardSorted, 0, QualifiedCount)
      remaining      == Slice(standardSorted, QualifiedCount, Len(standardSorted))
      pointsSorted   == Sort(remaining, "sortByPoints")
  IN  WithRanks(top6Qualified \o pointsSorted)

\* Faulty variant of the redraft rule: the cut is made after rank 5.
applyRankingsFromSixth(ts, leagueType) ==
  LET sortedTeams == Sort(ts, "sortStandings")
  IN  IF leagueType = "redraft" /\ Len(sortedTeams) >= RedraftMinTeams
      THEN LET top == Slice(sortedTeams, 0, QualifiedCount - 1)
               candidates == Sort(Slice(sortedTeams, QualifiedCount - 1, Len(sortedTeams)),
                                  "sortByPoints")
           IN  WithRanks(top \o candidates)
      ELSE WithRanks(sortedTeams)

\* remaining.sort(...) sorts `remaining` in place and returns that same
\* array, so the later remaining.filter(...) reads the points-sorted array.
applyRankings(ts, leagueType) ==
  LET sortedTeams == Sort(ts, "sortStandings")
  IN  IF leagueType = "redraft" /\ Len(sortedTeams) >= RedraftMinTeams
      THEN LET top6 == Slice(sortedTeams, 0, QualifiedCount)
               remaining0 == Slice(sortedTeams, QualifiedCount, Len(sortedTeams))
               candidatesForSeventh == Sort(remaining0, "sortByPoints")
               remaining == candidatesForSeventh
               actualSeventh == candidatesForSeventh[1]
               remainingAfterSeventh == FilterOutRoster(remaining, actualSeventh.rosterId)
           IN  WithRanks(top6 \o <<actualSeventh>> \o remainingAfterSeventh)
      ELSE WithRanks(sortedTeams)

----------------------------------------------------------------------------
\* Standings specification: a league of up to MaxTeams teams, rosters in
\* roster-id order, ranked by any of the passes.  The first four rosters
\* have the leaders' line; every later roster has any line of StatLines.

SeedLeague == [i \in 1..4 |-> MakeTeam(i, LeaderLine)]

NoMatchupsRequest ==
  /\ winnersBracket = <<>>
  /\ playoffStartWeek = DefaultPlayoffStartWeek
  /\ pointsMap = <<>>
  /\ week = 0
  /\ bracket = <<>>
  /\ pairs = <<>>
  /\ served = FALSE
  /\ call = NoCall
  /\ valid = FALSE
  /\ rule = <<>>
  /\ failure = NoError
  /\ EmptyCache
  /\ NoStandingsRequest
  /\ NoFinalRequest

Init ==
  /\ teams = SeedLeague
  /\ ranked = <<>>
  /\ op = "none"
  /\ NoMatchupsRequest

AddTeam ==
  /\ Len(teams) < MaxTeams
  /\ \E line \in StatLines :
       teams' = Append(teams, MakeTeam(Len(teams) + 1, line))
  /\ ranked' = <<>>
  /\ op' = "none"
  /\ UNCHANGED <<bracketVars, libVars, auxVars>>

ApplySleeperDefault ==
  /\ ranked' = applySleeperDefaultRankings(teams)
  /\ op' = "sleeperDefault"
  /\ UNCHANGED <<teams, bracketVars, libVars, auxVars>>

ApplyPointsRace ==
  /\ ranked' = applyPointsRaceRankings(teams)
  /\ op' = "pointsRace"
  /\ UNCHANGED <<teams, bracketVars, libVars, auxVars>>

ApplyRankings ==
  /\ \E lt \in LeagueTypes :
       /\ ranked' = applyRankings(teams, lt)
       /\ op' = lt
  /\ UNCHANGED <<teams, bracketVars, libVars, auxVars>>

Next ==
  \/ AddTeam
  \/ ApplySleeperDefault
  \/ ApplyPointsRace
  \/ ApplyRankings

Spec == Init /\ [][Next]_vars

----------------------------------------------------------------------------
\* Arrival-order specification: a league of up to MaxOrderTeams teams whose
\* rosters arrive in any order of their ids, with any line of OrderStatLines.

RosterIds(ts) == {ts[i].rosterId : i \in 1..Len(ts)}

InitOrder ==
  /\ teams = <<>>
  /\ ranked = <<>>
  /\ op = "none"
  /\ NoMatchupsRequest

AddTeamAnyOrder ==
  /\ Len(teams) < MaxOrderTeams
  /\ \E id \in (1..MaxOrderTeams) \ RosterIds(teams), line \in OrderStatLines :
       teams' = Append(teams, MakeTeam(id, line))
  /\ ranked' = <<>>
  /\ op' = "none"
  /\ UNCHANGED <<bracketVars, libVars, auxVars>>

NextOrder ==
  \/ AddTeamAnyOrder
  \/ ApplySleeperDefault
  \/ ApplyPointsRace
  \/ ApplyRankings

SpecOrder == InitOrder /\ [][NextOrder]_vars

----------------------------------------------------------------------------
\* The bracket view of the matchups handler.

\* A slot of a bracket record is a roster id, or NoRoster (null); a back
\* reference is [w |-> match id, l |-> match id], 0 where the field is absent.
NoRoster == 0
NoFrom == [w |-> 0, l |-> 0]

\* Faulty variant of the placeholder: the slot's roster id is not kept.
createPlaceholderTeamNoRosterId(rosterId, source) ==
  [rank |-> 99,
   rosterId |-> 0,
   ownerId |-> "placeholder",
   displayName |-> IF source.w # 0 THEN <<"Vencedor M", source.w>>
                   ELSE IF source.l # 0 THEN <<"Perdedor M", source.l>>
                   ELSE <<"TBD">>,
   wins |-> 0, losses |-> 0, ties |-> 0, pointsFor |-> 0, pointsAgainst |-> 0]

\* source?.w and source?.l are read as truthy: an absent field and 0 are alike.
createPlaceholderTeam(rosterId, source) ==
  [rank |-> 99,
   rosterId |-> IF rosterId # NoRoster THEN rosterId ELSE 0,
   ownerId |-> "placeholder",
   displayName |-> IF source.w # 0 THEN <<"Vencedor M", source.w>>
                   ELSE IF source.l # 0 THEN <<"Perdedor M", source.l>>
                   ELSE <<"TBD">>,
   wins |-> 0, losses |-> 0, ties |-> 0, pointsFor |-> 0, pointsAgainst |-> 0]

\* teams.find(t => t.rosterId === (slot || -1)): the positions that match.
FindTeam(ts, slot) ==
  LET wanted == IF slot # NoRoster THEN slot ELSE -1
  IN  {i \in 1..Len(ts) : ts[i].rosterId = wanted}

FirstOf(S) == CHOOSE i \in S : \A j \in S : i <= j

\* const matchWeek = playoffStartWeek + matchRound - 1
MatchWeek(start, round) == start + round - 1

\* One side of a bracket match: the live team or a placeholder, with the
\* score of the match's week when the score map has one; without an entry
\* only a placeholder is set to 0 and a live team keeps its own pointsFor.
BuildSide(ts, slot, from, matchWeek, pm) ==
  LET found == FindTeam(ts, slot)
      side  == IF found # {} THEN ts[FirstOf(found)]
               ELSE createPlaceholderTeam(slot, from)
      key   == <<matchWeek, slot>>
  IN  IF key \in DOMAIN pm THEN [side EXCEPT !.pointsFor = pm[key]]
      ELSE IF found = {} THEN [side EXCEPT !.pointsFor = 0]
      ELSE side

MatchStatus(match, home, away) ==
  IF match.w # NoRoster THEN "final"
  ELSE IF home.pointsFor > 0 \/ away.pointsFor > 0 THEN "in_progress"
  ELSE "scheduled"

\* The body of winnersBracket.forEach: the BracketMatch of one record.
BuildMatch(ts, match, start, pm) ==
  LET matchWeek == MatchWeek(start, match.r)
      home == BuildSide(ts, match.t1, match.t1_from, matchWeek, pm)
      away == BuildSide(ts, match.t2, match.t2_from, matchWeek, pm)
  IN  [id |-> match.m, round |-> match.r, week |-> matchWeek,
       home |-> home, away |-> away,
       status |-> MatchStatus(match, home, away),
       winner_id |-> match.w, title |-> <<>>]

\* roundsData.get(r): the matches of round r in the order of the records.
RECURSIVE RoundMatches(_, _, _, _, _)
RoundMatches(ts, wb, start, pm, r) ==
  IF wb = <<>> THEN <<>>
  ELSE IF Head(wb).r = r
       THEN <<BuildMatch(ts, Head(wb), start, pm)>> \o RoundMatches(ts, Tail(wb), start, pm, r)
       ELSE RoundMatches(ts, Tail(wb), start, pm, r)

SetMax(S) == CHOOSE x \in S : \A y \in S : y <= x

\* Math.max(...winnersBracket.map(m => m.r)); -Infinity for no record, which
\* no round number equals.
TotalRounds(wb) ==
  IF wb = <<>> THEN -1 ELSE SetMax({wb[i].r : i \in 1..Len(wb)})

\* The titles the handler writes.  A title is kept as the sequence of its
\* parts; the emoji that open two of them are written by their code points.
TitleFinal == <<"U+1F3C6", " Final">>
TitleThirdPlace == <<"U+1F949", " 3rd Place">>
TitleSemiFinal == <<"Semi-Final">>
TitleQuarterFinal == <<"Quarter-Final">>

Titled(m, title) == [m EXCEPT !.title = title]

\* Faulty variant of the round filter: the next-to-last round keeps every match.
FilterRoundKeepConsolation(matches, r, totalRounds) ==
  LET sortedMatches == Sort(matches, "CompareById")
      n == Len(sortedMatches)
  IN  IF r = totalRounds
      THEN (IF n >= 1 THEN <<Titled(sortedMatches[1], TitleFinal)>> ELSE <<>>)
           \o (IF n >= 2 THEN <<Titled(sortedMatches[2], TitleThirdPlace)>> ELSE <<>>)
      ELSE IF r = totalRounds - 1
      THEN [i \in 1..n |-> Titled(sortedMatches[i], TitleSemiFinal)]
      ELSE [i \in 1..n |-> Titled(sortedMatches[i], TitleQuarterFinal)]

\* The matches a round surfaces, with their titles.
FilterRound(matches, r, totalRounds) ==
  LET sortedMatches == Sort(matches, "CompareById")
      n == Len(sortedMatches)
  IN  IF r = totalRounds
      THEN (IF n >= 1 THEN <<Titled(sortedMatches[1], TitleFinal)>> ELSE <<>>)
           \o (IF n >= 2 THEN <<Titled(sortedMatches[2], TitleThirdPlace)>> ELSE <<>>)
      ELSE IF r = totalRounds - 1
      THEN (IF n >= 1 THEN <<Titled(sortedMatches[1], TitleSemiFinal)>> ELSE <<>>)
           \o (IF n >= 2 THEN <<Titled(sortedMatches[2], TitleSemiFinal)>> ELSE <<>>)
      ELSE [i \in 1..n |-> Titled(sortedMatches[i], TitleQuarterFinal)]

\* The rounds present, ascending (Array.from(roundsData.entries()).sort(...)).
RECURSIVE AscendingRounds(_)
AscendingRounds(S) ==
  IF S = {} THEN <<>>
  ELSE LET lo == CHOOSE x \in S : \A y \in S : x <= y
       IN  <<lo>> \o AscendingRounds(S \ {lo})

BuildBracket(ts, wb, start, pm) ==
  LET rounds == AscendingRounds({wb[i].r : i \in 1..Len(wb)})
      totalRounds == TotalRounds(wb)
  IN  [k \in 1..Len(rounds) |->
        [round |-> rounds[k],
         week |-> start + rounds[k] - 1,
         matches |-> FilterRound(RoundMatches(ts, wb, start, pm, rounds[k]),
                                 rounds[k], totalRounds)]]

\* Faulty variant of the current round: week - playoffStartWeek.
CurrentRoundPairsNoOffset(br, wk, start) ==
  LET hit == {k \in 1..Len(br) : br[k].round = wk - start}
  IN  IF hit = {} THEN <<>>
      ELSE LET ms == br[FirstOf(hit)].matches
           IN  [i \in 1..Len(ms) |->
                 [home |-> ms[i].home, away |-> ms[i].away, status |-> ms[i].status]]

\* The pairs of the requested week, taken from the filtered bracket.
CurrentRoundPairs(br, wk, start) ==
  LET currentRound == wk - start + 1
      hit == {k \in 1..Len(br) : br[k].round = currentRound}
  IN  IF hit = {} THEN <<>>
      ELSE LET ms == br[FirstOf(hit)].matches
           IN  [i \in 1..Len(ms) |->
                 [home |-> ms[i].home, away |-> ms[i].away, status |-> ms[i].status]]

\* pointsMap.set(`${w}-${m.roster_id}`, m.points) for the fetched weeks.
BuildPointsMap(start, sheet) ==
  [key \in {<<start + e.offset, e.roster_id>> : e \in sheet} |->
     (CHOOSE e \in sheet : <<start + e.offset, e.roster_id>> = key).points]

----------------------------------------------------------------------------
\* Bracket specification: a three-team league, a winners bracket of up to
\* MaxMatches records, and one matchups request in bracket mode.

BracketRosters ==
  << MakeTeam(1, [wins |-> 2, losses |-> 0, ties |-> 0, pointsFor |-> 5, pointsAgainst |-> 1]),
     MakeTeam(2, [wins |-> 1, losses |-> 1, ties |-> 0, pointsFor |-> 3, pointsAgainst |-> 2]),
     MakeTeam(3, [wins |-> 0, losses |-> 0, ties |-> 0, pointsFor |-> 0, pointsAgainst |-> 0]) >>

\* What a bracket record may hold: two live teams without and with a declared
\* winner; a live team against the winner of match 1; the loser of match 1
\* against an empty slot; a roster id no team has against a live team.
MatchShapes ==
  { [t1 |-> 1, t2 |-> 2, w |-> NoRoster, l |-> NoRoster, t1_from |-> NoFrom, t2_from |-> NoFrom],
    [t1 |-> 1, t2 |-> 2, w |-> 1, l |-> 2, t1_from |-> NoFrom, t2_from |-> NoFrom],
    [t1 |-> 3, t2 |-> NoRoster, w |-> NoRoster, l |-> NoRoster,
     t1_from |-> NoFrom, t2_from |-> [w |-> 1, l |-> 0]],
    [t1 |-> NoRoster, t2 |-> NoRoster, w |-> NoRoster, l |-> NoRoster,
     t1_from |-> [w |-> 0, l |-> 1], t2_from |-> NoFrom],
    [t1 |-> 9, t2 |-> 3, w |-> NoRoster, l |-> NoRoster, t1_from |-> NoFrom, t2_from |-> NoFrom] }

\* Weekly matchups the handler may be given for the playoff weeks, by offset
\* from the playoff start week.
ScoreSheets ==
  { {},
    { [offset |-> 0, roster_id |-> 1, points |-> 7],
      [offset |-> 0, roster_id |-> 2, points |-> 0] },
    { [offset |-> 0, roster_id |-> 3, points |-> 0],
      [offset |-> 1, roster_id |-> 1, points |-> 4],
      [offset |-> 1, roster_id |-> 9, points |-> 6] } }

InitBracket ==
  /\ teams = BracketRosters
  /\ ranked = applyRankings(BracketRosters, "dynasty")
  /\ op = "dynasty"
  /\ winnersBracket = <<>>
  /\ playoffStartWeek \in {DefaultPlayoffStartWeek, DefaultPlayoffStartWeek + 1}
  /\ pointsMap = <<>>
  /\ week = 0
  /\ bracket = <<>>
  /\ pairs = <<>>
  /\ served = FALSE
  /\ call = NoCall
  /\ valid = FALSE
  /\ rule = <<>>
  /\ failure = NoError
  /\ EmptyCache
  /\ NoStandingsRequest
  /\ NoFinalRequest

\* The upstream bracket gains a record.
AddMatch ==
  /\ ~served
  /\ Len(winnersBracket) < MaxMatches
  /\ \E shape \in MatchShapes, r \in 1..PlayoffWeeksFetched,
        m \in (1..MaxMatches) \ {winnersBracket[i].m : i \in 1..Len(winnersBracket)} :
       winnersBracket' = Append(winnersBracket,
         [r |-> r, m |-> m, t1 |-> shape.t1, t2 |-> shape.t2, w |-> shape.w, l |-> shape.l,
          t1_from |-> shape.t1_from, t2_from |-> shape.t2_from])
  /\ UNCHANGED <<rankVars, playoffStartWeek, pointsMap, week, bracket, pairs, served, libVars, auxVars>>

\* GET /api/matchups in bracket mode.
GetBracket ==
  /\ ~served
  /\ \E sheet \in ScoreSheets, wk \in playoffStartWeek..(playoffStartWeek + 1) :
       LET pm == BuildPointsMap(playoffStartWeek, sheet)
           br == BuildBracket(ranked, winnersBracket, playoffStartWeek, pm)
       IN  /\ pointsMap' = pm
           /\ week' = wk
           /\ bracket' = br
           /\ pairs' = CurrentRoundPairs(br, wk, playoffStartWeek)
  /\ served' = TRUE
  /\ UNCHANGED <<rankVars, winnersBracket, playoffStartWeek, libVars, auxVars>>

NextBracket ==
  \/ AddMatch
  \/ GetBracket

SpecBracket == InitBracket /\ [][NextBracket]_vars

----------------------------------------------------------------------------
\* Rounds specification: a winners bracket of up to MaxRoundMatches records
\* listed round by round, with match ids ascending or descending, and one
\* matchups request in bracket mode for any of the fetched playoff weeks.
\* The standings request behind the handler's team list may have failed, in
\* which case the handler goes on with no team.

\* Largest winners bracket of the rounds specification.
MaxRoundMatches == 4

\* Two live teams with a declared winner.
ResolvedShape ==
  [t1 |-> 1, t2 |-> 2, w |-> 1, l |-> 2, t1_from |-> NoFrom, t2_from |-> NoFrom]

\* A live team waiting for the winner of match 1.
PendingShape ==
  [t1 |-> 3, t2 |-> NoRoster, w |-> NoRoster, l |-> NoRoster,
   t1_from |-> NoFrom, t2_from |-> [w |-> 1, l |-> 0]]

\* A first-round record has no back reference.
RoundShapes(r) == IF r = 1 THEN {ResolvedShape} ELSE {ResolvedShape, PendingShape}

InitRounds ==
  /\ teams = BracketRosters
  /\ ranked \in {applyRankings(BracketRosters, "dynasty"), <<>>}
  /\ op = IF ranked = <<>> THEN "none" ELSE "dynasty"
  /\ winnersBracket = <<>>
  /\ playoffStartWeek = DefaultPlayoffStartWeek
  /\ pointsMap = <<>>
  /\ week = 0
  /\ bracket = <<>>
  /\ pairs = <<>>
  /\ served = FALSE
  /\ call = NoCall
  /\ valid = FALSE
  /\ rule = <<>>
  /\ failure = NoError
  /\ EmptyCache
  /\ NoStandingsRequest
  /\ NoFinalRequest

\* The upstream bracket gains a record of the last round listed or of a later
\* round; the ids run upwards from 1 or downwards from MaxRoundMatches.
AddRoundMatch ==
  /\ ~served
  /\ Len(winnersBracket) < MaxRoundMatches
  /\ LET n == Len(winnersBracket)
         lastRound == IF n = 0 THEN 1 ELSE winnersBracket[n].r
         ids == IF n = 0 THEN {1, MaxRoundMatches}
                ELSE IF winnersBracket[1].m = 1 THEN {n + 1}
                ELSE {MaxRoundMatches - n}
     IN  \E r \in lastRound..PlayoffWeeksFetched, m \in ids :
           \E shape \in RoundShapes(r) :
             winnersBracket' = Append(winnersBracket,
               [r |-> r, m |-> m, t1 |-> shape.t1, t2 |-> shape.t2,
                w |-> shape.w, l |-> shape.l,
                t1_from |-> shape.t1_from, t2_from |-> shape.t2_from])
  /\ UNCHANGED <<rankVars, playoffStartWeek, pointsMap, week, bracket, pairs, served, libVars, auxVars>>

\* GET /api/matchups in bracket mode, for any of the fetched playoff weeks.
GetBracketOfWeek ==
  /\ ~served
  /\ \E sheet \in ScoreSheets,
        wk \in playoffStartWeek..(playoffStartWeek + PlayoffWeeksFetched - 1) :
       LET pm == BuildPointsMap(playoffStartWeek, sheet)
           br == BuildBracket(ranked, winnersBracket, playoffStartWeek, pm)
       IN  /\ pointsMap' = pm
           /\ week' = wk
           /\ bracket' = br
           /\ pairs' = CurrentRoundPairs(br, wk, playoffStartWeek)
  /\ served' = TRUE
  /\ UNCHANGED <<rankVars, winnersBracket, playoffStartWeek, libVars, auxVars>>

NextRounds ==
  \/ AddRoundMatch
  \/ GetBracketOfWeek

SpecRounds == InitRounds /\ [][NextRounds]_vars

----------------------------------------------------------------------------
\* The pairing library (lib/matchups).

\* Number of teams the dynasty table pairs.
DynastyTeamCount == 10
\* The one week of the redraft pairing.
RedraftPairingWeek == 14
\* The weeks of the dynasty table.
DynastyWeeks == {10, 11, 12, 13}

\* throw new Error(message): the thrown object's name is "Error".
Thrown(message) == [name |-> "Error", message |-> message]

\* for (let i = 0; i < teams.length; i += 2) if (i + 1 < teams.length) push
RECURSIVE PairLoop(_, _, _)
PairLoop(ts, i, acc) ==
  IF ~(i < Len(ts)) THEN acc
  ELSE PairLoop(ts, i + 2,
                IF i + 1 < Len(ts)
                THEN Append(acc, [home |-> ts[i + 1], away |-> ts[i + 2]])
                ELSE acc)

\* Faulty variant of the consecutive pairing: every team meets its successor.
pairTopXvsTopXSliding(ts) ==
  [k \in 1..(IF Len(ts) = 0 THEN 0 ELSE Len(ts) - 1) |-> [home |-> ts[k], away |-> ts[k + 1]]]

pairTopXvsTopX(ts) == PairLoop(ts, 0, <<>>)

\* Faulty variant of the table: the last pair of week 11 is written away
\* first, so position 9 hosts position 8.
weekRulesSlip ==
  [w \in DynastyWeeks |->
     CASE w = 10 -> << <<0, 1>>, <<3, 4>>, <<5, 6>>, <<7, 8>>, <<2, 9>> >>
       [] w = 11 -> << <<0, 2>>, <<1, 9>>, <<3, 5>>, <<4, 6>>, <<8, 7>> >>
       [] w = 12 -> << <<0, 3>>, <<1, 4>>, <<2, 5>>, <<6, 7>>, <<8, 9>> >>
       [] w = 13 -> << <<0, 1>>, <<2, 4>>, <<3, 5>>, <<6, 7>>, <<8, 9>> >>]

\* The table of index pairs (0-based positions) by week.
weekRules ==
  [w \in DynastyWeeks |->
     CASE w = 10 -> << <<0, 1>>, <<3, 4>>, <<5, 6>>, <<7, 8>>, <<2, 9>> >>
       [] w = 11 -> << <<0, 2>>, <<1, 9>>, <<3, 5>>, <<4, 6>>, <<7, 8>> >>
       [] w = 12 -> << <<0, 3>>, <<1, 4>>, <<2, 5>>, <<6, 7>>, <<8, 9>> >>
       [] w = 13 -> << <<0, 1>>, <<2, 4>>, <<3, 5>>, <<6, 7>>, <<8, 9>> >>]

\* Faulty variant of the table pairing: a league of more than ten teams passes.
pairDynastyAtLeastTen(ts, wk) ==
  IF Len(ts) < DynastyTeamCount
  THEN [pairs |-> <<>>, failure |-> Thrown(<<"Liga Dynasty deve ter exatamente 10 times">>)]
  ELSE IF wk \notin DOMAIN weekRules
  THEN [pairs |-> <<>>, failure |-> Thrown(<<"Semana", wk, "nao e valida para Dynasty">>)]
  ELSE [pairs |-> [k \in 1..Len(weekRules[wk]) |->
                     [home |-> ts[weekRules[wk][k][1] + 1],
                      away |-> ts[weekRules[wk][k][2] + 1]]],
        failure |-> NoError]

\* The pairs returned, or the error thrown (then nothing is returned, shown
\* here as no pairs).  The messages are kept by their wording, without accents.
pairDynasty(ts, wk) ==
  IF Len(ts) # DynastyTeamCount
  THEN [pairs |-> <<>>, failure |-> Thrown(<<"Liga Dynasty deve ter exatamente 10 times">>)]
  ELSE IF wk \notin DOMAIN weekRules
  THEN [pairs |-> <<>>, failure |-> Thrown(<<"Semana", wk, "nao e valida para Dynasty">>)]
  ELSE [pairs |-> [k \in 1..Len(weekRules[wk]) |->
                     [home |-> ts[weekRules[wk][k][1] + 1],
                      away |-> ts[weekRules[wk][k][2] + 1]]],
        failure |-> NoError]

isValidWeekForLeague(leagueType, wk) ==
  IF leagueType = "redraft" THEN wk = RedraftPairingWeek
  ELSE IF leagueType = "dynasty" THEN wk \in DynastyWeeks
  ELSE FALSE

\* Faulty variant of the rule name: redraft-topx for any redraft week.
getMatchupRuleAnyRedraftWeek(leagueType, wk) ==
  IF leagueType = "redraft"
  THEN [rule |-> <<"redraft-topx">>, failure |-> NoError]
  ELSE IF leagueType = "dynasty" /\ wk \in DynastyWeeks
  THEN [rule |-> <<"dynasty-week", wk>>, failure |-> NoError]
  ELSE [rule |-> <<>>, failure |-> Thrown(<<"Combinacao invalida", leagueType, "semana", wk>>)]

\* The rule name returned (`dynasty-week${week}` kept as name and week), or
\* the error thrown.
getMatchupRule(leagueType, wk) ==
  IF leagueType = "redraft" /\ wk = RedraftPairingWeek
  THEN [rule |-> <<"redraft-topx">>, failure |-> NoError]
  ELSE IF leagueType = "dynasty" /\ wk \in DynastyWeeks
  THEN [rule |-> <<"dynasty-week", wk>>, failure |-> NoError]
  ELSE [rule |-> <<>>, failure |-> Thrown(<<"Combinacao invalida", leagueType, "semana", wk>>)]

----------------------------------------------------------------------------
\* Pairing specification: a league of up to MaxPairTeams teams ranked by
\* applyRankings, and calls of the pairing library with any league type and
\* any week up to MaxWeek.

\* Largest league of the pairing specification.
MaxPairTeams == 11
\* Last week a library call is made with.
MaxWeek == 16

Weeks == 9..MaxWeek

\* League types a call may carry; "other" is any string that is neither.
CallLeagueTypes == {"redraft", "dynasty", "other"}

\* The season line of roster id: records and points that do not follow the ids.
PairingLine(id) ==
  [wins |-> id % 2, losses |-> 1 - (id % 2), ties |-> 0,
   pointsFor |-> id % 4, pointsAgainst |-> 0]

InitPairing ==
  /\ teams = <<>>
  /\ ranked = <<>>
  /\ op = "none"
  /\ winnersBracket = <<>>
  /\ playoffStartWeek \in {DefaultPlayoffStartWeek, DefaultPlayoffStartWeek + 1}
  /\ pointsMap = <<>>
  /\ week = 0
  /\ bracket = <<>>
  /\ pairs = <<>>
  /\ served = FALSE
  /\ call = NoCall
  /\ valid = FALSE
  /\ rule = <<>>
  /\ failure = NoError
  /\ EmptyCache
  /\ NoStandingsRequest
  /\ NoFinalRequest

\* A roster joins the league and the standings are ranked again.
EnrollTeam ==
  /\ Len(teams) < MaxPairTeams
  /\ teams' = Append(teams, MakeTeam(Len(teams) + 1, PairingLine(Len(teams) + 1)))
  /\ ranked' = applyRankings(teams', "dynasty")
  /\ op' = "dynasty"
  /\ pairs' = <<>>
  /\ call' = NoCall
  /\ valid' = FALSE
  /\ rule' = <<>>
  /\ failure' = NoError
  /\ UNCHANGED <<winnersBracket, playoffStartWeek, pointsMap, week, bracket, served, auxVars>>

CallPairTopXvsTopX ==
  /\ pairs' = pairTopXvsTopX(ranked)
  /\ call' = [fn |-> "pairTopXvsTopX", leagueType |-> "none", week |-> 0]
  /\ valid' = FALSE
  /\ rule' = <<>>
  /\ failure' = NoError
  /\ UNCHANGED <<rankVars, winnersBracket, playoffStartWeek, pointsMap, week, bracket, served, auxVars>>

CallPairDynasty ==
  /\ \E wk \in Weeks :
       /\ pairs' = pairDynasty(ranked, wk).pairs
       /\ failure' = pairDynasty(ranked, wk).failure
       /\ call' = [fn |-> "pairDynasty", leagueType |-> "none", week |-> wk]
  /\ valid' = FALSE
  /\ rule' = <<>>
  /\ UNCHANGED <<rankVars, winnersBracket, playoffStartWeek, pointsMap, week, bracket, served, auxVars>>

CallIsValidWeekForLeague ==
  /\ \E lt \in CallLeagueTypes, wk \in Weeks :
       /\ valid' = isValidWeekForLeague(lt, wk)
       /\ call' = [fn |-> "isValidWeekForLeague", leagueType |-> lt, week |-> wk]
  /\ pairs' = <<>>
  /\ rule' = <<>>
  /\ failure' = NoError
  /\ UNCHANGED <<rankVars, winnersBracket, playoffStartWeek, pointsMap, week, bracket, served, auxVars>>

CallGetMatchupRule ==
  /\ \E lt \in CallLeagueTypes, wk \in Weeks :
       /\ rule' = getMatchupRule(lt, wk).rule
       /\ failure' = getMatchupRule(lt, wk).failure
       /\ call' = [fn |-> "getMatchupRule", leagueType |-> lt, week |-> wk]
  /\ pairs' = <<>>
  /\ valid' = FALSE
  /\ UNCHANGED <<rankVars, winnersBracket, playoffStartWeek, pointsMap, week, bracket, served, auxVars>>

NextPairing ==
  \/ EnrollTeam
  \/ CallPairTopXvsTopX
  \/ CallPairDynasty
  \/ CallIsValidWeekForLeague
  \/ CallGetMatchupRule

SpecPairing == InitPairing /\ [][NextPairing]_vars

----------------------------------------------------------------------------
\* Redraft fallback specification: a redraft league of up to MaxFallbackTeams
\* teams, its ranked standings as the handler's team list, and one matchups
\* request for week 14 outside bracket mode.

\* Largest league of the fallback specification.
MaxFallbackTeams == 3

\* What fetchMatchups may return for the week: nothing, or points by roster
\* (fetchMatchups returns [] on any failure, so the catch of the fallback is
\* never entered through it).
FallbackSheets ==
  { {},
    { [roster_id |-> 1, points |-> 7], [roster_id |-> 2, points |-> 0] },
    { [roster_id |-> 3, points |-> 4] } }

\* realMatchups.forEach(m => pMap.set(m.roster_id, m.points))
FallbackPointsMap(sheet) ==
  [id \in {e.roster_id : e \in sheet} |->
     (CHOOSE e \in sheet : e.roster_id = id).points]

\* The team objects after pairs.forEach(pair => ...): a pair's home and away
\* are the very objects of the team list, so writing pair.home.pointsFor
\* writes the team at that position; the last team of an odd list is in no
\* pair and is not written.
PopulateFallbackScores(ts, pMap) ==
  [i \in 1..Len(ts) |->
     IF i <= 2 * (Len(ts) \div 2) /\ ts[i].rosterId \in DOMAIN pMap
     THEN [ts[i] EXCEPT !.pointsFor = pMap[ts[i].rosterId]]
     ELSE ts[i]]

InitFallback ==
  /\ teams = <<>>
  /\ ranked = <<>>
  /\ op = "none"
  /\ NoMatchupsRequest

\* A roster joins the league and the standings are ranked again.
JoinLeague ==
  /\ ~served
  /\ Len(teams) < MaxFallbackTeams
  /\ \E line \in StatLines :
       teams' = Append(teams, MakeTeam(Len(teams) + 1, line))
  /\ ranked' = applyRankings(teams', "redraft")
  /\ op' = "redraft"
  /\ UNCHANGED <<bracketVars, libVars, auxVars>>

\* GET /api/matchups for a redraft league in week 14, outside bracket mode:
\* consecutive pairs of the handler's team list, then the week's scores.
GetRedraftFallback ==
  /\ ~served
  /\ \E sheet \in FallbackSheets :
       LET paired == pairTopXvsTopX(ranked)
           written == IF sheet # {} /\ paired # <<>>
                      THEN PopulateFallbackScores(ranked, FallbackPointsMap(sheet))
                      ELSE ranked
       IN  /\ ranked' = written
           /\ pairs' = pairTopXvsTopX(written)
           /\ pointsMap' = FallbackPointsMap(sheet)
  /\ week' = RedraftPairingWeek
  /\ call' = [fn |-> "getMatchupRule", leagueType |-> "redraft", week |-> RedraftPairingWeek]
  /\ rule' = getMatchupRule("redraft", RedraftPairingWeek).rule
  /\ failure' = getMatchupRule("redraft", RedraftPairingWeek).failure
  /\ served' = TRUE
  /\ UNCHANGED <<teams, op, winnersBracket, playoffStartWeek, bracket, valid, auxVars>>

NextFallback ==
  \/ JoinLeague
  \/ GetRedraftFallback

SpecFallback == InitFallback /\ [][NextFallback]_vars

----------------------------------------------------------------------------
\* MemoryCache, for one key.  Every action below is one synchronous run of
\* JavaScript (a call up to its return, or a promise reaction), so no other
\* code runs inside it.

\* Most getOrFetch calls of the cache specifications.
MaxCalls == 3
\* Last instant of the clock.
MaxTime == 3

\* The ttl of every call (ttlSeconds * 1000), in clock units.
Ttl == 1

\* What a producer may resolve with: parsed JSON that is an object, and the
\* falsy values null and 0.
ProducerValues == {"object", "null", "0"}

\* JavaScript truthiness of a cached value (the miss value null included).
Truthy(v) == v \notin {"none", "null", "0"}

\* MemoryCache.get: the value returned ("none" for null on a miss) and the
\* cache it leaves (an expired entry is deleted).
cacheGet(entry, t) ==
  IF entry = NoEntry THEN [value |-> "none", cache |-> NoEntry]
  ELSE IF t - entry.timestamp > entry.ttl THEN [value |-> "none", cache |-> NoEntry]
  ELSE [value |-> entry.data, cache |-> entry]

\* Faulty variant of a call's decision: a pending request is not looked for.
getOrFetchOutcomeNoDedup(cached, pending) ==
  IF Truthy(cached) THEN "cache" ELSE "new"

\* Which way a getOrFetch call goes: the cached value, the pending promise,
\* or a new producer.
getOrFetchOutcome(cached, pending) ==
  IF Truthy(cached) THEN "cache"
  ELSE IF pending # 0 THEN "pending"
  ELSE "new"

\* MemoryCache.getOrFetch up to its return.
GetOrFetch ==
  /\ Len(callers) < MaxCalls
  /\ LET got == cacheGet(cache, now)
         way == getOrFetchOutcome(got.value, pendingRequests)
         id  == Len(promises) + 1
     IN  /\ cache' = got.cache
         /\ CASE way = "cache" ->
                   /\ callers' = Append(callers,
                        [at |-> now, from |-> "cache", promise |-> 0, value |-> got.value])
                   /\ UNCHANGED <<pendingRequests, promises>>
              [] way = "pending" ->
                   /\ callers' = Append(callers,
                        [at |-> now, from |-> "pending", promise |-> pendingRequests,
                         value |-> "none"])
                   /\ UNCHANGED <<pendingRequests, promises>>
              [] way = "new" ->
                   /\ promises' = Append(promises,
                        [state |-> "pending", value |-> "none"])
                   /\ pendingRequests' = id
                   /\ callers' = Append(callers,
                        [at |-> now, from |-> "new", promise |-> id, value |-> "none"])
  /\ UNCHANGED <<now, rankVars, bracketVars, libVars, dataVars, finalVars>>

\* Faulty variant of the failure reaction: the pending entry is left behind.
pendingAfterFailureKept(pending) == pending

\* this.pendingRequests.delete(key) in the catch reaction.
pendingAfterFailure(pending) == 0

\* The producer of promise p resolves with v: the then reaction runs
\* this.set(key, data, ttlSeconds), which also deletes the pending entry of
\* the key, whichever promise it holds.
ProducerFulfils ==
  /\ \E p \in 1..Len(promises), v \in ProducerValues :
       /\ promises[p].state = "pending"
       /\ promises' = [promises EXCEPT ![p] =
                         [state |-> "fulfilled", value |-> v]]
       /\ cache' = [data |-> v, timestamp |-> now, ttl |-> Ttl]
  /\ pendingRequests' = 0
  /\ UNCHANGED <<now, callers, rankVars, bracketVars, libVars, dataVars, finalVars>>

\* The producer of promise p fails: the catch reaction deletes the pending
\* entry of the key, whichever promise it holds, and rethrows.
ProducerFails ==
  /\ \E p \in 1..Len(promises) :
       /\ promises[p].state = "pending"
       /\ promises' = [promises EXCEPT ![p] =
                         [state |-> "rejected", value |-> "error"]]
  /\ pendingRequests' = pendingAfterFailure(pendingRequests)
  /\ UNCHANGED <<cache, now, callers, rankVars, bracketVars, libVars, dataVars, finalVars>>

\* Time passes.
Tick ==
  /\ now < MaxTime
  /\ now' = now + 1
  /\ UNCHANGED <<cache, pendingRequests, promises, callers, rankVars, bracketVars, libVars, dataVars, finalVars>>

\* MemoryCache.clear(), called by POST /api/clear-cache (a clear of an empty
\* cache changes nothing and is left out).
Clear ==
  /\ cache # NoEntry \/ pendingRequests # 0
  /\ cache' = NoEntry
  /\ pendingRequests' = 0
  /\ UNCHANGED <<promises, now, callers, rankVars, bracketVars, libVars, dataVars, finalVars>>

InitCache ==
  /\ teams = <<>>
  /\ ranked = <<>>
  /\ op = "none"
  /\ NoMatchupsRequest

\* Cache specification: calls of getOrFetch, producers settling, time.
NextCache ==
  \/ GetOrFetch
  \/ ProducerFulfils
  \/ ProducerFails
  \/ Tick

SpecCache == InitCache /\ [][NextCache]_vars

\* Cache specification with the clear-cache route.
NextCacheClear ==
  \/ GetOrFetch
  \/ ProducerFulfils
  \/ ProducerFails
  \/ Tick
  \/ Clear

SpecCacheClear == InitCache /\ [][NextCacheClear]_vars

----------------------------------------------------------------------------
\* Sleeper data (lib/sleeper).  A string is the sequence of its characters;
\* a property the JSON body does not have reads as Undefined, a number it
\* does not have as Missing.  Accents of the literals are dropped.

\* Largest upstream users list and rosters list of the standings request.
MaxUsers == 2
MaxRosters == 2

Undefined == <<"undefined">>
Missing == -1

\* JavaScript truthiness of a string-valued property.
IsTruthyString(s) == s # Undefined /\ s # <<>>

\* String.prototype.trim.
RECURSIVE trimStart(_)
trimStart(s) == IF s # <<>> /\ Head(s) = " " THEN trimStart(Tail(s)) ELSE s

RECURSIVE trimEnd(_)
trimEnd(s) ==
  IF s # <<>> /\ s[Len(s)] = " " THEN trimEnd(SubSeq(s, 1, Len(s) - 1)) ELSE s

trim(s) == trimEnd(trimStart(s))

\* value?.trim(): undefined stays undefined.
OptionalTrim(s) == IF s = Undefined THEN Undefined ELSE trim(s)

\* String.prototype.slice(-n).
SliceLast(s, n) == IF Len(s) <= n THEN s ELSE SubSeq(s, Len(s) - n + 1, Len(s))

\* `${roster_id}` for the one-digit roster ids of the model.
DigitOf(n) == <<"0", "1", "2", "3", "4", "5", "6", "7", "8", "9">>[n + 1]
NumberToString(n) == <<DigitOf(n)>>

UsuarioPrefix == <<"U", "s", "u", "a", "r", "i", "o", " ">>
TimePrefix == <<"T", "i", "m", "e", " ">>
UnknownOwner == <<"u", "n", "k", "n", "o", "w", "n">>

\* Faulty variant of the numeric default: a missing number is kept.
OrMissing(x) == x

\* x || 0 on a number.
OrZero(x) == IF x = Missing THEN 0 ELSE x

\* The name the userMap loop stores for a user (display name, else
\* username, else a name made of the user id).
UserMapName(user) ==
  IF IsTruthyString(user.display_name) /\ Len(trim(user.display_name)) > 0
  THEN trim(user.display_name)
  ELSE IF IsTruthyString(user.username) /\ Len(trim(user.username)) > 0
  THEN trim(user.username)
  ELSE UsuarioPrefix \o SliceLast(user.user_id, 6)

\* userMap.get(owner_id): the map holds the users with a truthy user_id, a
\* later user replacing an earlier one of the same id.
UserMapGet(us, owner) ==
  LET found == {i \in 1..Len(us) : IsTruthyString(us[i].user_id) /\ us[i].user_id = owner}
  IN  IF found = {} THEN Undefined ELSE UserMapName(us[SetMax(found)])

\* The display name of one roster and whether finding it threw (reading
\* .slice of an undefined user_id is a TypeError).
RosterDisplayName(us, roster) ==
  LET fromMap == UserMapGet(us, roster.owner_id)
      matches == {i \in 1..Len(us) :
                    \/ us[i].user_id = roster.owner_id
                    \/ us[i].username = roster.owner_id
                    \/ us[i].display_name = roster.owner_id}
  IN  IF IsTruthyString(fromMap) THEN [name |-> fromMap, threw |-> FALSE]
      ELSE IF matches # {}
      THEN LET matchingUser == us[FirstOf(matches)]
           IN  IF IsTruthyString(OptionalTrim(matchingUser.display_name))
               THEN [name |-> trim(matchingUser.display_name), threw |-> FALSE]
               ELSE IF IsTruthyString(OptionalTrim(matchingUser.username))
               THEN [name |-> trim(matchingUser.username), threw |-> FALSE]
               ELSE IF matchingUser.user_id = Undefined
               THEN [name |-> Undefined, threw |-> TRUE]
               ELSE [name |-> UsuarioPrefix \o SliceLast(matchingUser.user_id, 6),
                     threw |-> FALSE]
      ELSE [name |-> TimePrefix \o
                     (IF IsTruthyString(roster.owner_id)
                      THEN SliceLast(roster.owner_id, 6)
                      ELSE NumberToString(roster.roster_id)),
            threw |-> FALSE]

\* roster.settings || {} and then one of its numbers.
SettingOf(roster, field) ==
  IF roster.settings.present THEN roster.settings[field] ELSE Missing

\* The team of one roster; points are kept in hundredths, which is what
\* parseFloat((fpts + fpts_decimal / 100).toFixed(2)) holds.  avatarUrl and
\* ppts, which no ranking reads, are left out.
MapRoster(us, roster) ==
  LET displayName == RosterDisplayName(us, roster).name
      fpts == OrZero(SettingOf(roster, "fpts")) * 100
                + OrZero(SettingOf(roster, "fpts_decimal"))
      fpts_against == OrZero(SettingOf(roster, "fpts_against")) * 100
                        + OrZero(SettingOf(roster, "fpts_against_decimal"))
  IN  [rank |-> 0,
       rosterId |-> roster.roster_id,
       ownerId |-> IF IsTruthyString(roster.owner_id) THEN roster.owner_id ELSE UnknownOwner,
       displayName |-> IF IsTruthyString(displayName) THEN displayName
                       ELSE TimePrefix \o NumberToString(roster.roster_id),
       wins |-> OrZero(SettingOf(roster, "wins")),
       losses |-> OrZero(SettingOf(roster, "losses")),
       ties |-> OrZero(SettingOf(roster, "ties")),
       pointsFor |-> fpts,
       pointsAgainst |-> fpts_against]

\* rosters.filter(roster => roster && roster.roster_id !== undefined)
ValidRosters(rs) == SelectSeq(rs, LAMBDA roster : roster.roster_id # Missing)

\* users.filter(user => user && user.user_id)
ValidUsers(us) == SelectSeq(us, LAMBDA user : IsTruthyString(user.user_id))

\* The teams returned, or threw = TRUE when the mapping of a roster threw.
mapSleeperDataToTeams(us, rs) ==
  LET kept == ValidRosters(rs)
  IN  IF \E i \in 1..Len(kept) : RosterDisplayName(us, kept[i]).threw
      THEN [teams |-> <<>>, threw |-> TRUE]
      ELSE [teams |-> [i \in 1..Len(kept) |-> MapRoster(us, kept[i])], threw |-> FALSE]

\* The user GET /user/{ownerId} answers with for an owner the league's users
\* list does not have.
OrphanUser(ownerId) ==
  [user_id |-> ownerId, display_name |-> Undefined, username |-> <<"o", "r", "f">>]

\* validUsers after the orphan loop: one fetch per unmatched owner id, in
\* roster order; a fetch that fails or answers without user_id adds nothing.
RECURSIVE PushOrphans(_, _, _)
PushOrphans(validUsers, unmatchedOwners, found) ==
  IF unmatchedOwners = <<>> THEN validUsers
  ELSE PushOrphans(IF Head(unmatchedOwners) \in found
                   THEN Append(validUsers, OrphanUser(Head(unmatchedOwners)))
                   ELSE validUsers,
                   Tail(unmatchedOwners), found)

\* fetchLeagueData(leagueId, true): `failed` names the upstream request that
\* fetchJSON threw for ("none" if all three answered), `found` the owner ids
\* the orphan fetch resolves.  Any throw inside ends in the catch, which
\* returns no league and empty lists.
fetchLeagueData(failed, us, rs, found) ==
  IF failed # "none"
  THEN [league |-> "null", users |-> <<>>, rosters |-> <<>>]
  ELSE LET validUsers == ValidUsers(us)
           validRosters == ValidRosters(rs)
           userIds == {validUsers[i].user_id : i \in 1..Len(validUsers)}
           ownerIds == [i \in 1..Len(validRosters) |-> validRosters[i].owner_id]
           unmatchedOwners == SelectSeq(ownerIds, LAMBDA ownerId : ownerId \notin userIds)
       IN  [league |-> "league",
            users |-> IF Len(validUsers) > 0 /\ Len(validRosters) > 0
                      THEN PushOrphans(validUsers, unmatchedOwners, found)
                      ELSE validUsers,
            rosters |-> validRosters]

\* What fetchJSON throws: an Error naming the status for a non-OK response,
\* the TypeError of fetch for a network error.
fetchJSONError(kind) ==
  IF kind = "status" THEN Thrown(<<"Erro na API do Sleeper", 500>>)
  ELSE [name |-> "TypeError", message |-> <<"fetch failed">>]

\* The catch of GET /api/standings.
CatchResponse(error) ==
  IF error.message[1] = "Erro na API do Sleeper"
  THEN [status |-> 502, error |-> <<"Erro ao consultar dados do Sleeper">>]
  ELSE [status |-> 500, error |-> <<"Erro interno do servidor">>]

SortTypes == {"sleeper", "custom", "points-race"}

\* GET /api/standings after its awaits: `data` is what fetchLeagueData
\* returned and `mapped` what mapSleeperDataToTeams(data.users, data.rosters)
\* returns or throws.  The result is the response, the mapped teams, the
\* ranked teams and the ranking pass used.  fetchNFLState has its own catch
\* and default and only supplies the week of the response, which is left out.
StandingsGET(leagueParam, sortType, data, mapped, leagueType) ==
  LET none == [teams |-> <<>>, ranked |-> <<>>, op |-> "none"]
  IN  IF ~leagueParam
      THEN [response |-> [status |-> 400, error |-> <<"Parametro league e obrigatorio">>]] @@ none
      ELSE IF sortType \notin SortTypes
      THEN [response |-> [status |-> 400, error |-> <<"Parametro sort deve ser sleeper, custom ou points-race">>]] @@ none
      ELSE IF data.league = "null"
      THEN [response |-> [status |-> 404, error |-> <<"Liga nao encontrada ou dados indisponiveis">>]] @@ none
      ELSE IF mapped.threw
      THEN [response |-> CatchResponse([name |-> "TypeError", message |-> <<"Cannot read properties of undefined">>])] @@ none
      ELSE [response |-> [status |-> 200, error |-> <<>>],
            teams |-> mapped.teams,
            ranked |-> IF sortType = "sleeper" THEN applySleeperDefaultRankings(mapped.teams)
                       ELSE IF sortType = "points-race" THEN applyPointsRaceRankings(mapped.teams)
                       ELSE applyRankings(mapped.teams, leagueType),
            op |-> IF sortType = "sleeper" THEN "sleeperDefault"
                   ELSE IF sortType = "points-race" THEN "pointsRace"
                   ELSE leagueType]

----------------------------------------------------------------------------
\* Standings-request specification: upstream users and rosters lists of up to
\* MaxUsers and MaxRosters entries, complete or not, and one request to
\* GET /api/standings during which any of the three upstream requests may
\* fail.

\* A user with a padded display name; a user whose names are blank or absent
\* and whose id has seven characters; an entry without user_id.
UserShapes ==
  { [user_id |-> <<"u", "1">>, display_name |-> <<"A", "n", "a", " ">>,
     username |-> <<"a", "n", "a">>],
    [user_id |-> <<"1", "2", "3", "4", "5", "6", "7">>, display_name |-> <<" ">>,
     username |-> Undefined],
    [user_id |-> Undefined, display_name |-> Undefined, username |-> Undefined] }

NoRosterSettings ==
  [present |-> FALSE, wins |-> Missing, losses |-> Missing, ties |-> Missing,
   fpts |-> Missing, fpts_decimal |-> Missing,
   fpts_against |-> Missing, fpts_against_decimal |-> Missing]

\* Settings of a roster that has played: no ties and no decimals recorded.
PartialSettings ==
  [present |-> TRUE, wins |-> 2, losses |-> 1, ties |-> Missing,
   fpts |-> 3, fpts_decimal |-> 5,
   fpts_against |-> 2, fpts_against_decimal |-> Missing]

OrphanId == <<"u", "9">>

\* Owner and settings of a roster: owned by a listed user, by a user named
\* by username, by a user the list does not have, or by nobody.
RosterShapes ==
  { [owner_id |-> <<"u", "1">>, settings |-> PartialSettings],
    [owner_id |-> <<"1", "2", "3", "4", "5", "6", "7">>, settings |-> PartialSettings],
    [owner_id |-> <<"a", "n", "a">>, settings |-> NoRosterSettings],
    [owner_id |-> Undefined, settings |-> NoRosterSettings],
    [owner_id |-> OrphanId, settings |-> PartialSettings] }

UpstreamFailures ==
  [request : {"league", "users", "rosters"}, kind : {"status", "network"}]

InitStandings ==
  /\ teams = <<>>
  /\ ranked = <<>>
  /\ op = "none"
  /\ NoMatchupsRequest

\* The upstream users list gains an entry.
AddUser ==
  /\ response = NoResponse
  /\ Len(users) < MaxUsers
  /\ \E user \in UserShapes : users' = Append(users, user)
  /\ UNCHANGED <<rankVars, bracketVars, libVars, cacheVars, rosters, upstream, response, finalVars>>

\* The upstream rosters list gains an entry, with the next roster id or
\* without one.
AddRoster ==
  /\ response = NoResponse
  /\ Len(rosters) < MaxRosters
  /\ \/ \E shape \in RosterShapes :
          rosters' = Append(rosters,
            [roster_id |-> Len(rosters) + 1, owner_id |-> shape.owner_id,
             settings |-> shape.settings])
     \/ rosters' = Append(rosters,
          [roster_id |-> Missing, owner_id |-> Undefined, settings |-> NoRosterSettings])
  /\ UNCHANGED <<rankVars, bracketVars, libVars, cacheVars, users, upstream, response, finalVars>>

\* One request to GET /api/standings, from its parameters to its response:
\* the league data is fetched, mapped and ranked, each value computed once.
StandingsRequest(leagueParam, sortType, fail, found, leagueType) ==
  \E data \in {fetchLeagueData(fail.request, users, rosters, found)} :
    \E mapped \in {mapSleeperDataToTeams(data.users, data.rosters)} :
      \E out \in {StandingsGET(leagueParam, sortType, data, mapped, leagueType)} :
        /\ upstream' = fail
        /\ response' = out.response
        /\ teams' = out.teams
        /\ ranked' = out.ranked
        /\ op' = out.op

\* GET /api/standings of the redraft league with all upstream requests
\* answered.
GetStandings ==
  /\ response = NoResponse
  /\ \E sortType \in SortTypes, found \in SUBSET {OrphanId} :
       StandingsRequest(TRUE, sortType, NoFailure, found, "redraft")
  /\ UNCHANGED <<bracketVars, libVars, cacheVars, users, rosters, finalVars>>

\* GET /api/standings while one upstream request fails.
GetStandingsUpstreamDown ==
  /\ response = NoResponse
  /\ \E fail \in UpstreamFailures :
       StandingsRequest(TRUE, "sleeper", fail, {}, "redraft")
  /\ UNCHANGED <<bracketVars, libVars, cacheVars, users, rosters, finalVars>>

\* GET /api/standings without league parameter or with an unknown sort.
GetStandingsBadRequest ==
  /\ response = NoResponse
  /\ \E leagueParam \in BOOLEAN, sortType \in {"sleeper", "other"} :
       /\ ~leagueParam \/ sortType = "other"
       /\ StandingsRequest(leagueParam, sortType, NoFailure, {}, "redraft")
  /\ UNCHANGED <<bracketVars, libVars, cacheVars, users, rosters, finalVars>>

NextStandings ==
  \/ AddUser
  \/ AddRoster
  \/ GetStandings
  \/ GetStandingsUpstreamDown
  \/ GetStandingsBadRequest

SpecStandings == InitStandings /\ [][NextStandings]_vars

----------------------------------------------------------------------------
\* Champion lookup (lib/playoffs).

\* No result (null).
NoPlayoffResult ==
  [found |-> FALSE, championRosterId |-> NoRoster, runnerUpRosterId |-> NoRoster,
   finalRound |-> 0]

\* matchups.find(m => m.roster_id === id) in the matchups of one week, in
\* which a roster has one entry: the entry found, as a set of at most one.
MatchupOf(sheet, wk, id) == {e \in sheet : e.week = wk /\ e.roster_id = id}

\* for (let week = currentWeek; week >= playoffWeekStart; week--): the first
\* week in which both finalists meet in one matchup and one outscores the
\* other decides; a week without both, with different matchups or with a tie
\* is passed over.
RECURSIVE FallbackLoop(_, _, _, _)
FallbackLoop(sheet, finalMatch, wk, playoffWeekStart) ==
  IF ~(wk >= playoffWeekStart) THEN NoPlayoffResult
  ELSE LET t1Matchup == MatchupOf(sheet, wk, finalMatch.t1)
           t2Matchup == MatchupOf(sheet, wk, finalMatch.t2)
           skip == FallbackLoop(sheet, finalMatch, wk - 1, playoffWeekStart)
       IN  IF t1Matchup # {} /\ t2Matchup # {}
           THEN LET m1 == CHOOSE e \in t1Matchup : TRUE
                    m2 == CHOOSE e \in t2Matchup : TRUE
                IN  IF m1.matchup_id = m2.matchup_id /\ m1.points > m2.points
                    THEN [found |-> TRUE, championRosterId |-> finalMatch.t1,
                          runnerUpRosterId |-> finalMatch.t2, finalRound |-> 0]
                    ELSE IF m1.matchup_id = m2.matchup_id /\ m2.points > m1.points
                    THEN [found |-> TRUE, championRosterId |-> finalMatch.t2,
                          runnerUpRosterId |-> finalMatch.t1, finalRound |-> 0]
                    ELSE skip
           ELSE skip

\* A league that was not fetched, or whose settings name no playoff start
\* week, gives null; a setting that is 0 here is absent.
fetchPlayoffFinalFallback(settings, sheet, finalMatch) ==
  IF settings.playoff_week_start = 0 THEN NoPlayoffResult
  ELSE LET playoffWeekStart == settings.playoff_week_start
           currentWeek == IF settings.leg # 0 THEN settings.leg
                          ELSE IF settings.week # 0 THEN settings.week
                          ELSE playoffWeekStart
       IN  FallbackLoop(sheet, finalMatch, currentWeek, playoffWeekStart)

\* finalMatches[0]: the first record of the last round, in the order of the
\* upstream list.
FirstFinalMatch(wb) ==
  LET finalRound == SetMax({wb[i].r : i \in 1..Len(wb)})
      finalMatches == SelectSeq(wb, LAMBDA match : match.r = finalRound)
  IN  finalMatches[1]

fetchPlayoffFinal(wb, settings, sheet) ==
  IF Len(wb) = 0 THEN NoPlayoffResult
  ELSE LET finalRound == SetMax({wb[i].r : i \in 1..Len(wb)})
           finalMatch == FirstFinalMatch(wb)
           fallbackResult == fetchPlayoffFinalFallback(settings, sheet, finalMatch)
           viaFallback == IF fallbackResult.found
                          THEN [fallbackResult EXCEPT !.finalRound = finalRound]
                          ELSE NoPlayoffResult
       IN  IF finalMatch.t1 = NoRoster \/ finalMatch.t2 = NoRoster
           THEN NoPlayoffResult
           ELSE IF finalMatch.w # NoRoster
           THEN [found |-> TRUE, championRosterId |-> finalMatch.w,
                 runnerUpRosterId |-> IF finalMatch.t1 = finalMatch.w
                                      THEN finalMatch.t2 ELSE finalMatch.t1,
                 finalRound |-> finalRound]
           ELSE IF finalMatch.p1 # Missing /\ finalMatch.p2 # Missing
           THEN IF finalMatch.p1 > finalMatch.p2
                THEN [found |-> TRUE, championRosterId |-> finalMatch.t1,
                      runnerUpRosterId |-> finalMatch.t2, finalRound |-> finalRound]
                ELSE IF finalMatch.p2 > finalMatch.p1
                THEN [found |-> TRUE, championRosterId |-> finalMatch.t2,
                      runnerUpRosterId |-> finalMatch.t1, finalRound |-> finalRound]
                ELSE viaFallback
           ELSE viaFallback

----------------------------------------------------------------------------
\* Final specification: the winners bracket of a four-team playoff (two
\* semi-finals, then the final and the 3rd-place game), listed round by
\* round and in either order within a round, up to MaxFinalMatches records;
\* one champion lookup and one matchups request in bracket mode.

\* Largest winners bracket of the final specification.
MaxFinalMatches == 3

\* The semi-finals 1 and 2, decided; the final 3 and the 3rd-place game 4.
PlayoffPairings ==
  { [m |-> 1, r |-> 1, t1 |-> 1, t2 |-> 4],
    [m |-> 2, r |-> 1, t1 |-> 2, t2 |-> 3],
    [m |-> 3, r |-> 2, t1 |-> 1, t2 |-> 2],
    [m |-> 4, r |-> 2, t1 |-> 4, t2 |-> 3] }

\* How far a last-round record is settled: winner declared (first or second
\* team), not declared with scores that differ, tie, one or no score, and
\* the second team not yet known.
FinalOutcomes ==
  { [w |-> "t1", p1 |-> Missing, p2 |-> Missing, known |-> TRUE],
    [w |-> "t2", p1 |-> 9, p2 |-> 7, known |-> TRUE],
    [w |-> "none", p1 |-> 9, p2 |-> 7, known |-> TRUE],
    [w |-> "none", p1 |-> 6, p2 |-> 8, known |-> TRUE],
    [w |-> "none", p1 |-> 5, p2 |-> 5, known |-> TRUE],
    [w |-> "none", p1 |-> 4, p2 |-> Missing, known |-> TRUE],
    [w |-> "none", p1 |-> Missing, p2 |-> Missing, known |-> TRUE],
    [w |-> "none", p1 |-> Missing, p2 |-> Missing, known |-> FALSE] }

\* A semi-final is won by its first team.
OutcomesOf(round) ==
  IF round = 1 THEN {[w |-> "t1", p1 |-> Missing, p2 |-> Missing, known |-> TRUE]}
  ELSE FinalOutcomes

BracketRecord(pairing, outcome) ==
  [r |-> pairing.r, m |-> pairing.m,
   t1 |-> pairing.t1,
   t2 |-> IF outcome.known THEN pairing.t2 ELSE NoRoster,
   w |-> IF outcome.w = "t1" THEN pairing.t1
         ELSE IF outcome.w = "t2" THEN pairing.t2 ELSE NoRoster,
   l |-> IF outcome.w = "t1" THEN pairing.t2
         ELSE IF outcome.w = "t2" THEN pairing.t1 ELSE NoRoster,
   p1 |-> outcome.p1, p2 |-> outcome.p2,
   t1_from |-> NoFrom,
   t2_from |-> IF outcome.known THEN NoFrom
               ELSE IF pairing.m = 3 THEN [w |-> 2, l |-> 0] ELSE [w |-> 0, l |-> 2]]

\* league.settings as the fallback reads them: none, the start week alone,
\* and the start week with the season's current leg.
LeagueSettings ==
  { NoSettings,
    [playoff_week_start |-> 14, leg |-> 0, week |-> 0],
    [playoff_week_start |-> 14, leg |-> 15, week |-> 0] }

\* Weekly matchups of the playoff weeks: none; the finalists 1 and 2 and the
\* teams 4 and 3 meeting in week 15; a week-15 tie of the finalists after
\* their decided meeting of week 14; the finalists in different matchups.
WeeklySheets ==
  { {},
    { [week |-> 15, roster_id |-> 1, matchup_id |-> 1, points |-> 10],
      [week |-> 15, roster_id |-> 2, matchup_id |-> 1, points |-> 8],
      [week |-> 15, roster_id |-> 4, matchup_id |-> 2, points |-> 3],
      [week |-> 15, roster_id |-> 3, matchup_id |-> 2, points |-> 6] },
    { [week |-> 15, roster_id |-> 1, matchup_id |-> 1, points |-> 5],
      [week |-> 15, roster_id |-> 2, matchup_id |-> 1, points |-> 5],
      [week |-> 14, roster_id |-> 1, matchup_id |-> 2, points |-> 3],
      [week |-> 14, roster_id |-> 2, matchup_id |-> 2, points |-> 7] },
    { [week |-> 14, roster_id |-> 1, matchup_id |-> 1, points |-> 9],
      [week |-> 14, roster_id |-> 2, matchup_id |-> 2, points |-> 4] } }

InitFinal ==
  /\ teams = BracketRosters
  /\ ranked = applyRankings(BracketRosters, "dynasty")
  /\ op = "dynasty"
  /\ NoMatchupsRequest

\* The upstream bracket gains a record: a match not yet listed, of the last
\* round listed or of a later one.
AddFinalMatch ==
  /\ ~served
  /\ ~playoffFinal.fetched
  /\ Len(winnersBracket) < MaxFinalMatches
  /\ \E pairing \in PlayoffPairings :
       /\ \A i \in 1..Len(winnersBracket) :
            winnersBracket[i].m # pairing.m /\ winnersBracket[i].r <= pairing.r
       /\ \E outcome \in OutcomesOf(pairing.r) :
            winnersBracket' = Append(winnersBracket, BracketRecord(pairing, outcome))
  /\ UNCHANGED <<rankVars, playoffStartWeek, pointsMap, week, bracket, pairs, served,
                 libVars, cacheVars, dataVars, finalVars>>

\* fetchPlayoffFinal(leagueId), up to its return.
LookUpChampion ==
  /\ ~playoffFinal.fetched
  /\ \E settings \in LeagueSettings, sheet \in WeeklySheets :
       /\ leagueSettings' = settings
       /\ weeklyMatchups' = sheet
       /\ playoffFinal' = [fetched |-> TRUE] @@ fetchPlayoffFinal(winnersBracket, settings, sheet)
  /\ UNCHANGED <<rankVars, bracketVars, libVars, cacheVars, dataVars>>

NextFinal ==
  \/ AddFinalMatch
  \/ LookUpChampion
  \/ GetBracketOfWeek

SpecFinal == InitFinal /\ [][NextFinal]_vars

----------------------------------------------------------------------------
\* Properties of the ranking passes.  The orders below are stated on the
\* teams' fields, independently of the comparators and of Sort above.

\* A ranked team without its rank.
Unranked(t) == [f \in (DOMAIN t) \ {"rank"} |-> t[f]]

IdsOf(ts) == [i \in 1..Len(ts) |-> ts[i].rosterId]

\* a's win percentage minus b's, as the sign of an integer; 0 games count as 0.
PctCompare(a, b) ==
  LET ga == a.wins + a.losses + a.ties
      gb == b.wins + b.losses + b.ties
      na == IF ga = 0 THEN 0 ELSE 2 * a.wins + a.ties
      nb == IF gb = 0 THEN 0 ELSE 2 * b.wins + b.ties
      da == IF ga = 0 THEN 1 ELSE 2 * ga
      db == IF gb = 0 THEN 1 ELSE 2 * gb
  IN  na * db - nb * da

\* a comes before b by points for descending, then roster id ascending.
PointsBefore(a, b) ==
  \/ a.pointsFor > b.pointsFor
  \/ a.pointsFor = b.pointsFor /\ a.rosterId < b.rosterId

\* a comes before b in the full standings sort: win percentage descending,
\* points for descending, roster id ascending.
StandingsBefore(a, b) ==
  \/ PctCompare(a, b) > 0
  \/ PctCompare(a, b) = 0 /\ PointsBefore(a, b)

\* a comes before b in the plain default sort: win percentage descending,
\* points for descending, points against descending, roster id ascending.
DefaultBefore(a, b) ==
  \/ PctCompare(a, b) > 0
  \/ /\ PctCompare(a, b) = 0
     /\ \/ a.pointsFor > b.pointsFor
        \/ /\ a.pointsFor = b.pointsFor
           /\ \/ a.pointsAgainst > b.pointsAgainst
              \/ a.pointsAgainst = b.pointsAgainst /\ a.rosterId < b.rosterId

\* The 1-based position of team t in the full standings sort of the input.
StandingsPos(t) ==
  1 + Cardinality({i \in 1..Len(teams) : StandingsBefore(teams[i], t)})

\* The 1-based position of team t in the plain default sort of the input.
DefaultPos(t) ==
  1 + Cardinality({i \in 1..Len(teams) : DefaultBefore(teams[i], t)})

\* C1: after every ranking pass the result has as many teams as the input
\* and the rank of the team at position i is i, so the ranks are exactly 1..N
\* without gap or duplicate.
C1_DenseRanks ==
  op # "none" =>
    /\ Len(ranked) = Len(teams)
    /\ \A i \in 1..Len(ranked) : ranked[i].rank = i
    /\ {ranked[i].rank : i \in 1..Len(ranked)} = 1..Len(teams)

\* C1 witness: a redraft ranking of nine teams in which the seventh place was
\* taken by a team that the full sort put lower.
C1_Witness ==
  /\ op = "redraft"
  /\ Len(ranked) = 9
  /\ StandingsPos(ranked[7]) > 7
  /\ \A i \in 1..9 : ranked[i].rank = i

\* C2 (as claimed): in a redraft ranking of at least 7 teams, the teams at
\* ranks 8..N are in the relative order the full standings sort gives them.
C2_TailKeepsStandingsOrder ==
  (op = "redraft" /\ Len(teams) >= 7) =>
    \A i, j \in 8..Len(ranked) :
      i < j => StandingsPos(ranked[i]) < StandingsPos(ranked[j])

\* C3 (as claimed): in a redraft ranking of at least 7 teams, the team at
\* each rank 1..6 is the team at that position of the plain default sort
\* (with the points-against step).
C3_TopSixEqualsSleeperDefault ==
  (op = "redraft" /\ Len(teams) >= 7) =>
    \A i \in 1..6 : DefaultPos(ranked[i]) = i

\* C3 (amended): in a redraft ranking of at least 7 teams, the team at each
\* rank 1..6 is the team at that position of the sort by win percentage,
\* points for and roster id (no points-against step).
C3_TopSixEqualsStandingsSort ==
  (op = "redraft" /\ Len(teams) >= 7) =>
    \A i \in 1..6 : StandingsPos(ranked[i]) = i /\ ranked[i].rank = i

\* C3 witness: a redraft ranking of at least 7 teams whose top six differ from
\* the top six of the default sort, and in which rank 7 was promoted.
C3_Witness ==
  /\ op = "redraft"
  /\ Len(teams) >= 7
  /\ \E i \in 1..6 : DefaultPos(ranked[i]) # i
  /\ StandingsPos(ranked[7]) > 7

\* C4: in a redraft ranking of at least 7 teams, the team at rank 7 is one of
\* the teams of positions 7..N of the full sort and comes before every other
\* of them by points for descending, then roster id ascending.
C4_SeventhByPoints ==
  (op = "redraft" /\ Len(teams) >= 7) =>
    /\ StandingsPos(ranked[7]) >= 7
    /\ \A i \in 1..Len(teams) :
         (StandingsPos(teams[i]) >= 7 /\ teams[i].rosterId # ranked[7].rosterId)
           => PointsBefore(ranked[7], teams[i])

\* C4 witness: the team at rank 7 has a worse win percentage than a team
\* ranked below it, and ties on points for with another candidate.
C4_Witness ==
  /\ op = "redraft"
  /\ Len(teams) >= 8
  /\ \E i \in 8..Len(ranked) : PctCompare(ranked[i], ranked[7]) > 0
  /\ \E i \in 8..Len(ranked) : ranked[i].pointsFor = ranked[7].pointsFor

AllZero(t) ==
  t.wins = 0 /\ t.losses = 0 /\ t.ties = 0 /\ t.pointsFor = 0 /\ t.pointsAgainst = 0

\* C7: in the output of applySleeperDefaultRankings every team is not worse
\* than the next one under the default order, and teams whose stats are all
\* zero appear in ascending roster id.
C7_DefaultOrder ==
  op = "sleeperDefault" =>
    /\ \A i \in 1..(Len(ranked) - 1) : DefaultBefore(ranked[i], ranked[i + 1])
    /\ \A i, j \in 1..Len(ranked) :
         (i < j /\ AllZero(ranked[i]) /\ AllZero(ranked[j]))
           => ranked[i].rosterId < ranked[j].rosterId

\* C7 witness: three teams of which two tie on win percentage through
\* different records (one of them with a tie game), the input not being in
\* the output's order.
C7_Witness ==
  /\ op = "sleeperDefault"
  /\ Len(ranked) = 3
  /\ IdsOf(ranked) # IdsOf(teams)
  /\ \E i \in 1..2 :
       /\ PctCompare(ranked[i], ranked[i + 1]) = 0
       /\ ranked[i].ties # ranked[i + 1].ties
       /\ ranked[i].pointsAgainst > ranked[i + 1].pointsAgainst

IndexPermutations(n) ==
  {p \in [1..n -> 1..n] : \A i, j \in 1..n : p[i] = p[j] => i = j}

\* C8: the default ranking of every permutation of the input list is the
\* ranking of the list itself, and ranking the ranked list again returns it.
C8_OrderInvariantIdempotent ==
  op = "sleeperDefault" =>
    /\ \A p \in IndexPermutations(Len(teams)) :
         applySleeperDefaultRankings([i \in 1..Len(teams) |-> teams[p[i]]]) = ranked
    /\ applySleeperDefaultRankings(ranked) = ranked

\* C8 witness: three teams, two of them equal in win percentage and points,
\* given in an order that is not the ranked order.
C8_Witness ==
  /\ op = "sleeperDefault"
  /\ Len(teams) = 3
  /\ ranked[1].rosterId # teams[1].rosterId
  /\ \E i, j \in 1..3 :
       /\ i # j
       /\ PctCompare(teams[i], teams[j]) = 0
       /\ teams[i].pointsFor = teams[j].pointsFor
       /\ teams[i].pointsAgainst = teams[j].pointsAgainst

\* C9: in the output of applyPointsRaceRankings the team at each rank 1..6
\* is the team at that position of the plain default sort, and ranks 7..N
\* are the remaining teams in points-for descending, roster id ascending.
C9_PointsRace ==
  op = "pointsRace" =>
    /\ Len(ranked) = Len(teams)
    /\ \A i \in 1..Len(ranked) : i <= 6 => DefaultPos(ranked[i]) = i
    /\ \A i \in 7..Len(ranked) : DefaultPos(ranked[i]) >= 7
    /\ \A i, j \in 7..Len(ranked) : i < j => PointsBefore(ranked[i], ranked[j])

\* C9 witness: a points race of nine teams where a team below rank 7 has a
\* better record than the team at rank 7, and the order of the remainder is
\* not the default sort's.
C9_Witness ==
  /\ op = "pointsRace"
  /\ Len(ranked) = 9
  /\ PctCompare(ranked[9], ranked[7]) > 0
  /\ DefaultPos(ranked[7]) > 7

\* C10: every ranking pass returns each input team exactly once, with every
\* field other than rank as in the input, and no other team.
C10_TeamsPreserved ==
  op # "none" =>
    /\ Len(ranked) = Len(teams)
    /\ \A i \in 1..Len(teams) :
         Cardinality({j \in 1..Len(ranked) : ranked[j].rosterId = teams[i].rosterId}) = 1
    /\ \A j \in 1..Len(ranked) :
         \E i \in 1..Len(teams) : Unranked(ranked[j]) = teams[i]

\* C10 witness: a redraft ranking of nine teams in which a team was promoted
\* to rank 7 and the teams below it were reordered.
C10_Witness ==
  /\ op = "redraft"
  /\ Len(teams) = 9
  /\ StandingsPos(ranked[7]) > 7
  /\ StandingsPos(ranked[9]) < 9

\* The league type and size for which applyRankings applies no redraft rule.
PlainSortCase ==
  /\ Len(ranked) = Len(teams)
  /\ \/ op \in {"dynasty", "none"}
     \/ op = "redraft" /\ Len(teams) < RedraftMinTeams

\* C11: when the league type is not redraft, or the league has fewer than
\* seven teams, applyRankings returns the input in the full standings order
\* (win percentage descending, points for descending, roster id ascending, no
\* points-against term), ranked 1..N in that order, and changes nothing else.
C11_PlainSortOtherwise ==
  PlainSortCase =>
    \A i \in 1..Len(ranked) :
      /\ ranked[i].rank = i
      /\ StandingsPos(ranked[i]) = i
      /\ \E j \in 1..Len(teams) : Unranked(ranked[i]) = teams[j]

\* C11 witness: a redraft ranking of a six-team league in which a team stands
\* above a team it ties with on win percentage and points for although its
\* points against are smaller.
C11_Witness ==
  /\ op = "redraft"
  /\ Len(teams) = 6
  /\ Len(ranked) = 6
  /\ \E i \in 1..5 :
       /\ PctCompare(ranked[i], ranked[i + 1]) = 0
       /\ ranked[i].pointsFor = ranked[i + 1].pointsFor
       /\ ranked[i].pointsAgainst < ranked[i + 1].pointsAgainst

----------------------------------------------------------------------------
\* Properties of the bracket view.

\* The bracket record a surfaced match was built from (match ids are unique).
RecordOf(m) ==
  winnersBracket[CHOOSE i \in 1..Len(winnersBracket) : winnersBracket[i].m = m.id]

\* The score the score map holds for a slot in a week, 0 when it has none.
ScoreOrZero(wk, slot) ==
  IF <<wk, slot>> \in DOMAIN pointsMap THEN pointsMap[<<wk, slot>>] ELSE 0

\* C5 (as claimed): every side of every match of the bracket view shows the
\* score the score map holds for that roster in the week of the match's round
\* (playoffStartWeek + round - 1), and 0 when the map holds none.
C5_ScoresFromMapOrZero ==
  served =>
    \A k \in 1..Len(bracket) : \A i \in 1..Len(bracket[k].matches) :
      LET m == bracket[k].matches[i]
          rec == RecordOf(m)
          wk == playoffStartWeek + rec.r - 1
      IN  /\ m.home.pointsFor = ScoreOrZero(wk, rec.t1)
          /\ m.away.pointsFor = ScoreOrZero(wk, rec.t2)

\* C6 (as claimed): a match of the bracket view is final when its record
\* declares a winner, else in_progress when the score map holds a nonzero
\* score for one of its sides in the match's week, else scheduled.
C6_StatusFromWinnerAndScores ==
  served =>
    \A k \in 1..Len(bracket) : \A i \in 1..Len(bracket[k].matches) :
      LET m == bracket[k].matches[i]
          rec == RecordOf(m)
          wk == playoffStartWeek + rec.r - 1
      IN  m.status = IF rec.w # NoRoster THEN "final"
                     ELSE IF ScoreOrZero(wk, rec.t1) # 0 \/ ScoreOrZero(wk, rec.t2) # 0
                          THEN "in_progress"
                     ELSE "scheduled"

----------------------------------------------------------------------------
\* Properties of the pairing library.

\* The 1-based positions in the ranked list of the teams of each pair.
PairPositions ==
  [k \in 1..Len(pairs) |->
     << CHOOSE i \in 1..Len(ranked) : ranked[i] = pairs[k].home,
        CHOOSE i \in 1..Len(ranked) : ranked[i] = pairs[k].away >>]

\* C12: pairTopXvsTopX on N ranked teams returns floor(N / 2) pairs; the k-th
\* pair (0-based) has the team at position 2k as home and the team at
\* position 2k + 1 as away, so the home rank is one less than the away rank;
\* the last team of an odd list is in no pair; 0 or 1 teams give no pair.
C12_ConsecutivePairs ==
  call.fn = "pairTopXvsTopX" =>
    /\ Len(pairs) = Len(ranked) \div 2
    /\ \A k \in 1..Len(pairs) :
         /\ pairs[k].home = ranked[2 * k - 1]
         /\ pairs[k].away = ranked[2 * k]
         /\ pairs[k].home.rank + 1 = pairs[k].away.rank
    /\ Len(ranked) % 2 = 1 =>
         \A k \in 1..Len(pairs) :
           ranked[Len(ranked)] \notin {pairs[k].home, pairs[k].away}

\* C12 witness: eleven ranked teams were paired into five pairs.
C12_Witness ==
  /\ call.fn = "pairTopXvsTopX"
  /\ Len(ranked) = 11
  /\ Len(pairs) = 5
  /\ pairs[5].away.rank = 10

\* The pairs the claim lists, by 1-indexed rank, home first.
ClaimedDynastyPairs(wk) ==
  CASE wk = 10 -> << <<1, 2>>, <<4, 5>>, <<6, 7>>, <<8, 9>>, <<3, 10>> >>
    [] wk = 11 -> << <<1, 3>>, <<2, 10>>, <<4, 6>>, <<5, 7>>, <<8, 9>> >>
    [] wk = 12 -> << <<1, 4>>, <<2, 5>>, <<3, 6>>, <<7, 8>>, <<9, 10>> >>
    [] wk = 13 -> << <<1, 2>>, <<3, 5>>, <<4, 6>>, <<7, 8>>, <<9, 10>> >>

\* C13: pairDynasty on ten ranked teams returns, for each of the weeks 10 to
\* 13, exactly the five pairs of the table, in the table's order, the first
\* rank of each pair as home and the second as away.
C13_DynastyTable ==
  (call.fn = "pairDynasty" /\ Len(ranked) = 10 /\ call.week \in 10..13) =>
    /\ failure = NoError
    /\ Len(pairs) = 5
    /\ \A k \in 1..5 :
         /\ pairs[k].home.rank = ClaimedDynastyPairs(call.week)[k][1]
         /\ pairs[k].away.rank = ClaimedDynastyPairs(call.week)[k][2]
    /\ PairPositions = ClaimedDynastyPairs(call.week)

\* C13 witness: week 11 was paired for ten teams, rank 2 hosting rank 10.
C13_Witness ==
  /\ call.fn = "pairDynasty"
  /\ Len(ranked) = 10
  /\ call.week = 11
  /\ Len(pairs) = 5
  /\ pairs[2].home.rank = 2
  /\ pairs[2].away.rank = 10

\* C29: every week table of pairDynasty (weeks 10 to 13) is a perfect
\* matching of the ten rank positions: each of the ten teams is in exactly
\* one of the five pairs, no team meets itself, and in every pair the home
\* position is the better-ranked (lower index) of the two.
C29_PerfectMatching ==
  (call.fn = "pairDynasty" /\ failure = NoError) =>
    /\ Len(ranked) = DynastyTeamCount
    /\ Len(pairs) = 5
    /\ \A i \in 1..Len(ranked) :
         Cardinality({k \in 1..Len(pairs) :
                        ranked[i] \in {pairs[k].home, pairs[k].away}}) = 1
    /\ \A k \in 1..Len(pairs) :
         /\ pairs[k].home # pairs[k].away
         /\ PairPositions[k][1] < PairPositions[k][2]

\* C29 witness: week 11 was paired for ten teams and its last pair has
\* position 8 (0-based 7) as home and position 9 as away.
C29_Witness ==
  /\ call.fn = "pairDynasty"
  /\ failure = NoError
  /\ call.week = 11
  /\ Len(pairs) = 5
  /\ PairPositions[5] = <<8, 9>>

\* The call of pairDynasty is one the table does not cover.
OffTable == Len(ranked) # 10 \/ call.week \notin 10..13

\* C14 (as claimed): pairDynasty fails with an InvalidScheduleError and
\* returns no pairs when the team count is not 10 or the week is not one of
\* 10..13, and succeeds only when both conditions are met.
C14_FailsWithInvalidScheduleError ==
  call.fn = "pairDynasty" =>
    IF OffTable
    THEN failure.name = "InvalidScheduleError" /\ pairs = <<>>
    ELSE failure = NoError /\ Len(pairs) = 5

\* C14 (amended): pairDynasty fails with a plain Error and returns no pairs
\* when the team count is not 10 or the week is not one of 10..13, and
\* succeeds only when both conditions are met.
C14_FailsWithError ==
  call.fn = "pairDynasty" =>
    IF OffTable
    THEN failure.name = "Error" /\ pairs = <<>>
    ELSE failure = NoError /\ Len(pairs) = 5

\* C14 witness: a league of eleven teams asked for week 10 and was refused.
C14_Witness ==
  /\ call.fn = "pairDynasty"
  /\ Len(ranked) = 11
  /\ call.week = 10
  /\ failure # NoError
  /\ pairs = <<>>

\* The weeks the claim calls valid: 14 for redraft, 10..13 for dynasty, and
\* in bracket mode (the dynasty playoffs) every week from the playoff start.
ClaimedValid(leagueType, wk) ==
  \/ leagueType = "redraft" /\ wk = 14
  \/ leagueType = "dynasty" /\ wk \in 10..13
  \/ leagueType = "dynasty" /\ wk >= playoffStartWeek

\* C15 (as claimed): isValidWeekForLeague is true exactly for week 14 of a
\* redraft league, weeks 10..13 of a dynasty league and every week at or
\* after the playoff start week in bracket mode, and false otherwise.
C15_ValidWeeks ==
  call.fn = "isValidWeekForLeague" =>
    (valid <=> ClaimedValid(call.leagueType, call.week))

----------------------------------------------------------------------------
\* Properties of the bracket's rounds and slots.

\* The ids of the records of round r, and the largest round of the records.
IdsOfRound(r) == {winnersBracket[i].m : i \in {j \in 1..Len(winnersBracket) : winnersBracket[j].r = r}}
LastRound == SetMax({winnersBracket[i].r : i \in 1..Len(winnersBracket)})

\* The i-th smallest element of a set of ids.
IdAt(S, i) == CHOOSE x \in S : Cardinality({y \in S : y < x}) = i - 1

\* How many matches a round of n records surfaces.
SurfacedCount(r, n) ==
  IF n > 2 /\ r >= LastRound - 1 THEN 2 ELSE n

\* The matches the bracket view shows for round r (none when r is absent).
SurfacedOfRound(r) ==
  LET hit == {k \in 1..Len(bracket) : bracket[k].round = r}
  IN  IF hit = {} THEN <<>> ELSE bracket[CHOOSE k \in hit : TRUE].matches

\* Round r shows the matches with the smallest ids, ascending, as many as
\* SurfacedCount says, titled final and third for the last round, semi for
\* the round before it and quarter for every earlier round.
RoundShown(r, final, third, semi, quarter) ==
  LET ids == IdsOfRound(r)
      shown == SurfacedOfRound(r)
  IN  /\ Len(shown) = SurfacedCount(r, Cardinality(ids))
      /\ \A i \in 1..Len(shown) :
           /\ shown[i].id = IdAt(ids, i)
           /\ shown[i].title = IF r = LastRound THEN (IF i = 1 THEN final ELSE third)
                               ELSE IF r = LastRound - 1 THEN semi
                               ELSE quarter

\* C17 (as claimed): with the final round the largest round number and the
\* matches of a round taken by ascending id, the final round shows its first
\* match titled 'Final' and its second titled '3rd Place' and no other; the
\* round before it shows only its first two, both 'Semi-Final'; every
\* earlier round shows all its matches, titled 'Quarter-Final'.
C17_RoundsAndTitles ==
  served =>
    /\ Len(bracket) = Cardinality({winnersBracket[i].r : i \in 1..Len(winnersBracket)})
    /\ \A i \in 1..Len(winnersBracket) :
         RoundShown(winnersBracket[i].r, <<"Final">>, <<"3rd Place">>,
                    <<"Semi-Final">>, <<"Quarter-Final">>)

\* C17 (amended): as claimed, with the titles the handler writes: a trophy
\* emoji and ' Final', a third-place-medal emoji and ' 3rd Place'.
C17_RoundsAndEmojiTitles ==
  served =>
    /\ Len(bracket) = Cardinality({winnersBracket[i].r : i \in 1..Len(winnersBracket)})
    /\ \A i \in 1..Len(winnersBracket) :
         RoundShown(winnersBracket[i].r, <<"U+1F3C6", " Final">>,
                    <<"U+1F949", " 3rd Place">>, <<"Semi-Final">>, <<"Quarter-Final">>)

\* C17 witness: three records of the round before the last arrived with
\* descending ids, one of them was dropped, and a final was shown.
C17_Witness ==
  /\ served
  /\ Len(winnersBracket) = 4
  /\ winnersBracket[1].m > winnersBracket[2].m
  /\ Cardinality(IdsOfRound(LastRound - 1)) = 3
  /\ Len(SurfacedOfRound(LastRound - 1)) = 2
  /\ Len(SurfacedOfRound(LastRound)) = 1

\* The record with match id m.
RecordWithId(m) ==
  winnersBracket[CHOOSE i \in 1..Len(winnersBracket) : winnersBracket[i].m = m]

TeamWithRoster(id) == ranked[CHOOSE i \in 1..Len(ranked) : ranked[i].rosterId = id]

\* A side of a shown match without its displayed points, which the score
\* population writes after the slot is resolved.
WithoutPoints(side) == [f \in (DOMAIN side) \ {"pointsFor"} |-> side[f]]

\* The side is what the slot resolves to: the listed team with the slot's
\* roster id, or else a placeholder of rank 99 with no games and no points
\* (but for the score of the match's week, when the score map has one), the
\* slot's roster id (0 for an empty slot) and the name of its origin.
SlotResolved(side, slot, from, wk) ==
  IF slot # NoRoster /\ \E i \in 1..Len(ranked) : ranked[i].rosterId = slot
  THEN WithoutPoints(side) = WithoutPoints(TeamWithRoster(slot))
  ELSE /\ side.rank = 99
       /\ side.wins = 0 /\ side.losses = 0 /\ side.ties = 0
       /\ side.pointsAgainst = 0
       /\ side.pointsFor = ScoreOrZero(wk, slot)
       /\ side.rosterId = slot
       /\ side.displayName = IF from.w # 0 THEN <<"Vencedor M", from.w>>
                              ELSE IF from.l # 0 THEN <<"Perdedor M", from.l>>
                              ELSE <<"TBD">>

\* C18: in every shown match, a slot whose roster id is in the team list is
\* that team, and every other slot is a placeholder with rank 99, all stats
\* zero, the slot's roster id (0 when absent), named after the match whose
\* winner it waits for, else the match whose loser it waits for, else TBD.
\* (The displayed points are those of the score population, claim C5.)
C18_SlotResolution ==
  served =>
    \A k \in 1..Len(bracket) : \A i \in 1..Len(bracket[k].matches) :
      LET m == bracket[k].matches[i]
          rec == RecordOf(m)
      IN  /\ SlotResolved(m.home, rec.t1, rec.t1_from, m.week)
          /\ SlotResolved(m.away, rec.t2, rec.t2_from, m.week)

\* C18 witness: a shown match with a roster id no team has at home, and a
\* shown match of a live team against the winner of match 1.
C18_Witness ==
  /\ served
  /\ \E k \in 1..Len(bracket) : \E i \in 1..Len(bracket[k].matches) :
       /\ bracket[k].matches[i].home.rosterId = 9
       /\ bracket[k].matches[i].home.displayName = <<"TBD">>
       /\ bracket[k].matches[i].away.rank # 99
  /\ \E k \in 1..Len(bracket) : \E i \in 1..Len(bracket[k].matches) :
       /\ bracket[k].matches[i].home.rosterId = 3
       /\ bracket[k].matches[i].home.rank # 99
       /\ bracket[k].matches[i].away.displayName = <<"Vencedor M", 1>>
       /\ bracket[k].matches[i].away.rosterId = 0

\* C20 (as claimed): when every record of the bracket declares a winner, no
\* side of a shown match is a placeholder (rank 99).
C20_NoPlaceholderWhenResolved ==
  (served /\ \A i \in 1..Len(winnersBracket) : winnersBracket[i].w # NoRoster) =>
    \A k \in 1..Len(bracket) : \A i \in 1..Len(bracket[k].matches) :
      /\ bracket[k].matches[i].home.rank # 99
      /\ bracket[k].matches[i].away.rank # 99

----------------------------------------------------------------------------
\* Frame properties.

\* C21 (as claimed): no ranking, pairing or bracket-building step changes
\* what it was given: a ranking pass leaves the unranked list as it was, and
\* a library call or a matchups request leaves the handler's team list, in
\* order and in every field of every team, as it was.
C21_InputsUnchanged ==
  [][ /\ (Len(teams') = Len(teams)) => (teams' = teams)
      /\ (Len(teams') = Len(teams) /\ (served' # served \/ call' # call))
           => (ranked' = ranked) ]_vars

----------------------------------------------------------------------------
\* Properties of MemoryCache.

\* The promises whose producer has not settled.
Running == {p \in 1..Len(promises) : promises[p].state = "pending"}

\* The promise a call got, for the calls that got one.
Joined(i) == callers[i].from \in {"new", "pending"}

\* C22: with getOrFetch calls for one key interleaved in any way, a producer
\* is started once per request: at most one producer is running at a time, a
\* new one is started only when none is running, and every call made while a
\* request is in flight gets the promise of that request, and so its value
\* or its error.
C22_SingleFlight ==
  /\ Cardinality(Running) <= 1
  /\ Len(promises) = Cardinality({i \in 1..Len(callers) : callers[i].from = "new"})
  /\ \A i \in 1..Len(callers) :
       Joined(i) =>
         /\ callers[i].promise =
              Cardinality({j \in 1..i : callers[j].from = "new"})
         /\ callers[i].promise \in 1..Len(promises)
  /\ \A p \in Running : pendingRequests = p /\ p = Len(promises)

\* C22 witness: three calls share the one producer that was started, which
\* has failed.
C22_Witness ==
  /\ Len(callers) = 3
  /\ Len(promises) = 1
  /\ callers[2].from = "pending"
  /\ callers[3].from = "pending"
  /\ promises[1].state = "rejected"

\* C24: when a producer fails, its error is what every call holding the
\* promise gets, the cache is left as it was, the pending entry of the key is
\* removed, and the next getOrFetch for the key starts a producer again.
C24_FailureNotCached ==
  [][ /\ \A p \in 1..Len(promises) :
           (promises[p].state = "pending" /\ promises'[p].state = "rejected") =>
             /\ cache' = cache
             /\ pendingRequests' = 0
             /\ promises'[p].value = "error"
      /\ (Len(callers') > Len(callers) /\ Len(promises) > 0
          /\ promises[Len(promises)].state = "rejected") =>
             /\ Len(promises') = Len(promises) + 1
             /\ callers'[Len(callers')].from = "new"
             /\ pendingRequests' = Len(promises') ]_vars

\* C24 witness: two calls waited on a producer that failed, and the third
\* call started a second producer; nothing is cached.
C24_Witness ==
  /\ Len(callers) = 3
  /\ callers[2].promise = 1
  /\ promises[1].state = "rejected"
  /\ callers[3].from = "new"
  /\ callers[3].promise = 2
  /\ cache = NoEntry

\* C25 (as claimed): once a producer has stored a value, whatever it is, a
\* getOrFetch made no more than the ttl after the store returns that value
\* and starts no producer; made later, it finds the entry discarded and a
\* producer is started again.
C25_CachedWithinTtl ==
  [][ (Len(callers') > Len(callers) /\ cache # NoEntry) =>
        IF now - cache.timestamp <= cache.ttl
        THEN /\ callers'[Len(callers')].from = "cache"
             /\ callers'[Len(callers')].value = cache.data
             /\ promises' = promises
        ELSE /\ cache' = NoEntry
             /\ Len(promises') = Len(promises) + 1 ]_vars

\* C28 (as claimed): under every interleaving of calls, completions,
\* failures and clear(), the key has a pending entry exactly while a producer
\* started for it has not settled, the entry is that producer's promise, and
\* no two producers of the key run at the same time.
C28_PendingExact ==
  /\ (pendingRequests # 0) <=> (Running # {})
  /\ pendingRequests # 0 => pendingRequests \in Running
  /\ Cardinality(Running) <= 1

----------------------------------------------------------------------------
\* Properties of the standings request.

\* s is absent or has no character other than spaces.
Blank(s) == s = Undefined \/ \A i \in 1..Len(s) : s[i] = " "

\* t is s without its leading and trailing spaces.
Stripped(s, t) ==
  /\ t # <<>>
  /\ t[1] # " " /\ t[Len(t)] # " "
  /\ \E a \in 0..Len(s) :
       /\ a + Len(t) <= Len(s)
       /\ \A i \in 1..Len(s) :
            IF i > a /\ i <= a + Len(t) THEN s[i] = t[i - a] ELSE s[i] = " "

\* name begins with prefix and goes on.
Synthesized(name, prefix) ==
  Len(name) > Len(prefix) /\ SubSeq(name, 1, Len(prefix)) = prefix

\* The claimed fields of the team made of a roster.
TolerantTeam(team, roster) ==
  /\ team.rosterId = roster.roster_id
  /\ \A field \in {"wins", "losses", "ties"} :
       (~roster.settings.present \/ roster.settings[field] = Missing) => team[field] = 0
  /\ (~roster.settings.present
        \/ (roster.settings.fpts = Missing /\ roster.settings.fpts_decimal = Missing))
       => team.pointsFor = 0
  /\ (~roster.settings.present
        \/ (roster.settings.fpts_against = Missing
            /\ roster.settings.fpts_against_decimal = Missing))
       => team.pointsAgainst = 0
  /\ roster.owner_id = Undefined => team.ownerId = UnknownOwner
  /\ team.displayName # Undefined
  /\ ~Blank(team.displayName)
  /\ \A i \in 1..Len(users) :
       (users[i].user_id # Undefined /\ users[i].user_id = roster.owner_id) =>
         IF ~Blank(users[i].display_name)
         THEN Stripped(users[i].display_name, team.displayName)
         ELSE IF ~Blank(users[i].username)
         THEN Stripped(users[i].username, team.displayName)
         ELSE Synthesized(team.displayName, UsuarioPrefix)

C26_UpstreamFailureIs502 ==
  upstream # NoFailure =>
    /\ response.status = 502
    /\ response.error = <<"Erro ao consultar dados do Sleeper">>

----------------------------------------------------------------------------
\* Properties of the champion lookup.

\* The final: the record of the last round with the smallest match id.
FinalRecord == RecordWithId(IdAt(IdsOfRound(LastRound), 1))

\* The participant of a match that is not id.
OtherOf(match, id) == IF match.t1 = id THEN match.t2 ELSE match.t1

\* The weekly entry of a roster.
WeeklyEntry(wk, id) ==
  CHOOSE e \in weeklyMatchups : e.week = wk /\ e.roster_id = id

\* The weeks, from the playoff start week to the league's current week, in
\* which the two participants of a match met and one outscored the other.
DecisiveWeeks(match) ==
  LET start == leagueSettings.playoff_week_start
      current == IF leagueSettings.leg # 0 THEN leagueSettings.leg
                 ELSE IF leagueSettings.week # 0 THEN leagueSettings.week
                 ELSE start
  IN  {wk \in start..current :
         /\ \E e \in weeklyMatchups : e.week = wk /\ e.roster_id = match.t1
         /\ \E e \in weeklyMatchups : e.week = wk /\ e.roster_id = match.t2
         /\ WeeklyEntry(wk, match.t1).matchup_id = WeeklyEntry(wk, match.t2).matchup_id
         /\ WeeklyEntry(wk, match.t1).points # WeeklyEntry(wk, match.t2).points}

\* The result is that of the weekly matchups: the higher scorer of the
\* latest decisive week, and null when the league names no playoff start
\* week or no week is decisive.
FromWeeklyMatchups(match) ==
  IF leagueSettings.playoff_week_start = 0 \/ DecisiveWeeks(match) = {}
  THEN ~playoffFinal.found
  ELSE LET wk == SetMax(DecisiveWeeks(match))
           champion == IF WeeklyEntry(wk, match.t1).points > WeeklyEntry(wk, match.t2).points
                       THEN match.t1 ELSE match.t2
       IN  /\ playoffFinal.found
           /\ playoffFinal.championRosterId = champion
           /\ playoffFinal.runnerUpRosterId = OtherOf(match, champion)

\* The result is the one claimed for a final that has both participants.
ChampionFrom(match) ==
  /\ IF match.w # NoRoster
     THEN /\ playoffFinal.found
          /\ playoffFinal.championRosterId = match.w
          /\ playoffFinal.runnerUpRosterId = OtherOf(match, match.w)
     ELSE IF match.p1 # Missing /\ match.p2 # Missing /\ match.p1 # match.p2
     THEN LET champion == IF match.p1 > match.p2 THEN match.t1 ELSE match.t2
          IN  /\ playoffFinal.found
              /\ playoffFinal.championRosterId = champion
              /\ playoffFinal.runnerUpRosterId = OtherOf(match, champion)
     ELSE FromWeeklyMatchups(match)
  /\ playoffFinal.found => playoffFinal.championRosterId # playoffFinal.runnerUpRosterId

\* C27: fetchPlayoffFinal on a non-empty winners bracket whose final match
\* has both participants: a declared winner w is the champion and the other
\* participant the runner-up; otherwise, when both scores are present and
\* differ, the higher scorer is the champion and the other the runner-up; a
\* tie or a missing score defers to the weekly matchups and gives null when
\* they are not decisive.  A returned result has champion and runner-up
\* distinct.
C27_ChampionOfFinal ==
  (/\ playoffFinal.fetched
   /\ winnersBracket # <<>>
   /\ FinalRecord.t1 # NoRoster
   /\ FinalRecord.t2 # NoRoster) => ChampionFrom(FinalRecord)

\* The match of the last round that the bracket view titles Final.
ViewedFinal ==
  LET shown == SurfacedOfRound(LastRound)
  IN  shown[CHOOSE i \in 1..Len(shown) : shown[i].title = TitleFinal]

\* C30: the champion lookup and the bracket view agree on the final: when
\* the last round holds more than one match (final and 3rd-place game), in
\* any order of the records, fetchPlayoffFinal takes champion and runner-up
\* from the match of that round with the lowest match id, which is the
\* match the bracket view titles Final, and never from the 3rd-place match.
C30_FinalAgreesWithView ==
  (/\ playoffFinal.fetched
   /\ playoffFinal.found
   /\ served
   /\ Cardinality(IdsOfRound(LastRound)) > 1) =>
    LET finalists == {playoffFinal.championRosterId, playoffFinal.runnerUpRosterId}
    IN  /\ ViewedFinal.id = FinalRecord.m
        /\ finalists = {FinalRecord.t1, FinalRecord.t2}
        /\ finalists = {ViewedFinal.home.rosterId, ViewedFinal.away.rosterId}

====
